---------------------------- MODULE Spec2Model ----------------------------
(***************************************************************************)
(* Text layout and safe-zone geometry of the stamp designer                *)
(* (TextPositioningService and its callers).                               *)
(*                                                                         *)
(* Numbers.  The service computes with JavaScript Numbers (IEEE-754        *)
(* doubles): every sum, product, quotient and square root is the exact     *)
(* result rounded to the nearest representable value, ties to even.  The   *)
(* model keeps that with a narrower format: a Number is a binary floating  *)
(* point value with a 14-bit significand, held as an integer count of      *)
(* 1/Unit (Unit = 2^14, the step of the subnormal range).  FAdd, FSub,     *)
(* FMul, FDiv and FSqrt are correctly rounded; negation, abs, min, max and *)
(* comparisons are exact.  Integers up to 2^14 and their halves, quarters, *)
(* ... are exact; decimal literals such as 0.6 and 1.2 are not, as in the  *)
(* code.                                                                   *)
(*                                                                         *)
(* Lines.  A StampTextLine is a function from field names to values; an    *)
(* optional field that is missing (undefined) is simply not in its DOMAIN, *)
(* so that `line.xPosition || 0` and the object spread `{...line}` are     *)
(* modelled by what they do.                                               *)
(***************************************************************************)
EXTENDS Integers, Sequences, FiniteSets, TLC

VARIABLES
    shape,    \* design.shape: "rectangle" | "square" | "circle"
    lines,    \* design.lines: sequence of StampTextLine
    prev,     \* the lines the last operation was applied to (its argument)
    op,       \* the last operation applied
    idx,      \* the index argument of the last operation (0-based, as in the code)
    total,    \* the totalLines argument of the last getDefaultLinePosition
    flag,     \* the boolean returned by the last predicate operation
    zone,     \* the record returned by the last getSafeZone
    deflt,    \* the partial line returned by the last getDefaultLinePosition
    ret,      \* the value returned by the last operation that returns a
              \* number, a list of indices or a line
    arg,      \* the argument of the last call as it is after the call: the
              \* line(s) handed to a planner, the field handed to the label
    ctx,      \* the CanvasRenderingContext2D the curved-text routine draws on
    render,   \* the activation of the curved-text routine (its locals and
              \* its position in the code)
    stampRadius,  \* the stampRadius argument of the last getCurvedTextRadius
    hook      \* a designer hook (useStampDesigner or useStampDesignerEnhanced)
              \* with the component that uses it: the React state, and what
              \* the callbacks of the last render closed over

\* The variables of the renderer and of the calls that return a value.
auxVars == <<ret, arg, ctx, render, stampRadius, hook>>

vars ==
    <<shape, lines, prev, op, idx, total, flag, zone, deflt, ret, arg, ctx, render,
      stampRadius, hook>>

---------------------------------------------------------------------------
(* Bounds of the model *)

\* Most lines in a design.
MaxLines == 3
\* Coordinates offered as inputs are the multiples k * CoordStep, |k| <= MaxK.
CoordStep == 25
MaxK == 6
\* getDefaultLinePosition is applied for totalLines in 1 .. MaxTotal.
MaxTotal == 8

---------------------------------------------------------------------------
(* Numbers: binary floating point, round to nearest, ties to even *)

\* Units per 1.0: a Number is an integer count of 1/Unit (the subnormal step).
Unit == 2^14

\* A Number carries Mant = 2^14 as the limit of its significand (14 bits).
Mant == 2^14

\* The Number of an integer literal.
Num(n) == n * Unit

Abs(a) == IF a < 0 THEN -a ELSE a

Sgn(a) == IF a < 0 THEN -1 ELSE IF a > 0 THEN 1 ELSE 0

\* Math.min, Math.max
Min(a, b) == IF a < b THEN a ELSE b

Max(a, b) == IF a > b THEN a ELSE b

\* The number of bits of n, 0 <= n < 2^31: the least b with n < 2^b (a binary
\* search over the powers of two).
BitLen(n) ==
    IF n < 32768
    THEN IF n < 128
        THEN IF n < 8
            THEN IF n < 2
                THEN IF n < 1 THEN 0 ELSE 1
                ELSE IF n < 4 THEN 2 ELSE 3
            ELSE IF n < 32
                THEN IF n < 16 THEN 4 ELSE 5
                ELSE IF n < 64 THEN 6 ELSE 7
        ELSE IF n < 2048
            THEN IF n < 512
                THEN IF n < 256 THEN 8 ELSE 9
                ELSE IF n < 1024 THEN 10 ELSE 11
            ELSE IF n < 8192
                THEN IF n < 4096 THEN 12 ELSE 13
                ELSE IF n < 16384 THEN 14 ELSE 15
    ELSE IF n < 8388608
        THEN IF n < 524288
            THEN IF n < 131072
                THEN IF n < 65536 THEN 16 ELSE 17
                ELSE IF n < 262144 THEN 18 ELSE 19
            ELSE IF n < 2097152
                THEN IF n < 1048576 THEN 20 ELSE 21
                ELSE IF n < 4194304 THEN 22 ELSE 23
        ELSE IF n < 134217728
            THEN IF n < 33554432
                THEN IF n < 16777216 THEN 24 ELSE 25
                ELSE IF n < 67108864 THEN 26 ELSE 27
            ELSE IF n < 536870912
                THEN IF n < 268435456 THEN 28 ELSE 29
                ELSE IF n < 1073741824 THEN 30 ELSE 31

\* The spacing of the Numbers around n >= 0: the least power of two u with
\* n \div u < Mant.
Ulp(n) == LET b == BitLen(n) IN IF b <= 14 THEN 1 ELSE 2^(b - 14)

\* The exponent e of a > 0 = m * 2^e with Mant/2 <= m < Mant.
Expo(a) == BitLen(a) - 14

\* The significand m of a > 0 = m * 2^Expo(a).
Significand(a) ==
    LET e == Expo(a) IN IF e >= 0 THEN a \div 2^e ELSE a * 2^(-e)

\* The significand f, rounded to nearest with ties to even on the remainder
\* r of the spacing g, and scaled back by 2^e.
RoundTies(f, r, g, sticky, e) ==
    IF 2 * r > g \/ (2 * r = g /\ (sticky \/ f % 2 = 1))
    THEN IF e >= 0 THEN (f + 1) * g * 2^e ELSE (f + 1) * (g \div 2^(-e))
    ELSE IF e >= 0 THEN f * g * 2^e ELSE f * (g \div 2^(-e))

\* q rounded at the spacing g.
RoundAt(q, sticky, e, g) == RoundTies(q \div g, q % g, g, sticky, e)

\* The Number nearest to (q + d) * 2^e, for q >= 0 and 0 <= d < 1 with d > 0
\* exactly when sticky; ties go to the even significand.  (With sticky, q has
\* more than 14 bits.)
RoundScaled(q, sticky, e) ==
    IF e < -30 THEN 0
    ELSE RoundAt(q, sticky, e, IF e >= 0 THEN Ulp(q) ELSE Max(Ulp(q), 2^(-e)))

\* a + b
FAdd(a, b) == Sgn(a + b) * RoundScaled(Abs(a + b), FALSE, 0)

\* a - b
FSub(a, b) == FAdd(a, -b)

\* a * b
FMul(a, b) ==
    IF a = 0 \/ b = 0 THEN 0
    ELSE Sgn(a) * Sgn(b)
            * RoundScaled(Significand(Abs(a)) * Significand(Abs(b)), FALSE,
                          Expo(Abs(a)) + Expo(Abs(b)) - 14)

\* a / b  (b # 0)
FDiv(a, b) ==
    IF a = 0 THEN 0
    ELSE LET n == Significand(Abs(a)) * 2^16
             m == Significand(Abs(b))
         IN  Sgn(a) * Sgn(b)
                * RoundScaled(n \div m, n % m # 0, Expo(Abs(a)) - Expo(Abs(b)) - 2)

RECURSIVE ISqrtBetween(_, _, _)
\* The largest r in lo .. hi with r * r <= n  (lo * lo <= n < (hi + 1)^2).
ISqrtBetween(n, lo, hi) ==
    IF lo >= hi THEN lo
    ELSE LET mid == (lo + hi + 1) \div 2
         IN  IF mid * mid <= n THEN ISqrtBetween(n, mid, hi)
             ELSE ISqrtBetween(n, lo, mid - 1)

\* Math.sqrt(a), a >= 0
FSqrt(a) ==
    IF a = 0 THEN 0
    ELSE LET e == Expo(a)
             k == IF e % 2 = 0 THEN 16 ELSE 15
             n == Significand(a) * 2^k
             q == ISqrtBetween(n, 2^14, 2^15 - 1)
         IN  RoundScaled(q, n # q * q, (e + 14 - k) \div 2)

\* Math.pow(a, 2)
FSquare(a) == FMul(a, a)

\* The Number of the decimal literal n/d (0.6 is Dec(6, 10)).
Dec(n, d) == FDiv(Num(n), Num(d))

---------------------------------------------------------------------------
(* StampTextLine *)

Shapes == {"rectangle", "square", "circle"}

\* `line.f || 0`: a missing (undefined) or zero field reads as 0.
OrZero(line, f) == IF f \in DOMAIN line THEN line[f] ELSE 0

\* `line.f = v` on an object: sets or adds the field.
With(line, f, v) ==
    IF f \in DOMAIN line THEN [line EXCEPT ![f] = v] ELSE (f :> v) @@ line

---------------------------------------------------------------------------
(* TextPositioningService *)

MARGIN_PERCENT == 2

\* const safeRadius = 100 - margin * Math.sqrt(2)
SafeRadius == FSub(Num(100), FMul(Num(MARGIN_PERCENT), FSqrt(Num(2))))

\* const safeMax = 100 - margin
SafeMax == FSub(Num(100), Num(MARGIN_PERCENT))

\* Math.sqrt(Math.pow(line.xPosition || 0, 2) + Math.pow(line.yPosition || 0, 2))
DistanceFromCenter(line) ==
    FSqrt(FAdd(FSquare(OrZero(line, "xPosition")), FSquare(OrZero(line, "yPosition"))))

\* Mutant of EnforceCircle: the circle treated like a box (per-axis clamp).
EnforceCircle_Clamp(line) ==
    With(With(line, "xPosition", Min(Max(OrZero(line, "xPosition"), -SafeRadius), SafeRadius)),
         "yPosition", Min(Max(OrZero(line, "yPosition"), -SafeRadius), SafeRadius))

\* The circle branch of enforceSafeZone.
EnforceCircle(line) ==
    LET d == DistanceFromCenter(line)
    IN  IF d > SafeRadius
        THEN LET ratio == FDiv(SafeRadius, d)
             IN  With(With(line, "xPosition", FMul(OrZero(line, "xPosition"), ratio)),
                      "yPosition", FMul(OrZero(line, "yPosition"), ratio))
        ELSE line

\* The rectangle/square branch of enforceSafeZone: per-axis clamp.
EnforceBox(line) ==
    With(With(line, "xPosition", Min(Max(OrZero(line, "xPosition"), -SafeMax), SafeMax)),
         "yPosition", Min(Max(OrZero(line, "yPosition"), -SafeMax), SafeMax))

enforceSafeZone(line, s) ==
    IF s = "circle" THEN EnforceCircle(line) ELSE EnforceBox(line)

isOutsideSafeZone(line, s) ==
    IF s = "circle"
    THEN DistanceFromCenter(line) > SafeRadius
    ELSE \/ OrZero(line, "xPosition") > SafeMax
         \/ OrZero(line, "xPosition") < -SafeMax
         \/ OrZero(line, "yPosition") > SafeMax
         \/ OrZero(line, "yPosition") < -SafeMax

\* Mutant of getSafeZone: the circle gets the diagonal margin on two sides.
getSafeZone_PerShape(s) ==
    [top |-> MARGIN_PERCENT, right |-> IF s = "circle" THEN 3 ELSE MARGIN_PERCENT,
     bottom |-> MARGIN_PERCENT, left |-> IF s = "circle" THEN 3 ELSE MARGIN_PERCENT]

getSafeZone(s) ==
    [top |-> MARGIN_PERCENT, right |-> MARGIN_PERCENT,
     bottom |-> MARGIN_PERCENT, left |-> MARGIN_PERCENT]

\* Mutant of DefaultCircle: the interior lines are spaced by
\* 100 / middleLineCount.
DefaultCircle_WideSpacing(index, totalLines) ==
    LET line == [xPosition |-> 0, yPosition |-> 0, curved |-> FALSE,
                 curvature |-> "top", fontSize |-> Num(16)]
    IN  IF index = 0
        THEN [line EXCEPT !.curved = TRUE, !.curvature = "top",
                          !.yPosition = Num(-70), !.fontSize = Num(14)]
        ELSE IF index = totalLines - 1
        THEN [line EXCEPT !.curved = TRUE, !.curvature = "bottom",
                          !.yPosition = Num(70), !.fontSize = Num(14)]
        ELSE LET middleLineCount == totalLines - 2
             IN  IF middleLineCount > 0
                 THEN LET middleIndex == index - 1
                          spacing == FDiv(Num(100), Num(middleLineCount))
                      IN  [line EXCEPT !.yPosition =
                              FAdd(Num(-40), FMul(Num(middleIndex + 1), spacing))]
                 ELSE line

\* The first branch of getDefaultLinePosition: a circle with at least 2 lines.
DefaultCircle(index, totalLines) ==
    LET line == [xPosition |-> 0, yPosition |-> 0, curved |-> FALSE,
                 curvature |-> "top", fontSize |-> Num(16)]
    IN  IF index = 0
        THEN [line EXCEPT !.curved = TRUE, !.curvature = "top",
                          !.yPosition = Num(-70), !.fontSize = Num(14)]
        ELSE IF index = totalLines - 1
        THEN [line EXCEPT !.curved = TRUE, !.curvature = "bottom",
                          !.yPosition = Num(70), !.fontSize = Num(14)]
        ELSE LET middleLineCount == totalLines - 2
             IN  IF middleLineCount > 0
                 THEN LET middleIndex == index - 1
                          spacing == FDiv(Num(100), Num(middleLineCount + 1))
                      IN  [line EXCEPT !.yPosition =
                              FAdd(Num(-40), FMul(Num(middleIndex + 1), spacing))]
                 ELSE line

\* The else branch of getDefaultLinePosition: rectangle, square, or a circle
\* with one line.
DefaultStack(index, totalLines) ==
    LET line == [xPosition |-> 0, yPosition |-> 0, curved |-> FALSE,
                 curvature |-> "top", fontSize |-> Num(16)]
        availableHeight == Num(180)
        spacing == IF totalLines > 1 THEN FDiv(availableHeight, Num(totalLines)) ELSE 0
        startY == FAdd(FDiv(-availableHeight, Num(2)), FDiv(spacing, Num(2)))
        placed == [line EXCEPT !.yPosition = FAdd(startY, FMul(Num(index), spacing))]
    IN  IF totalLines > 3
        THEN [placed EXCEPT !.fontSize = Max(Num(12), FSub(Num(18), Num(totalLines)))]
        ELSE placed

getDefaultLinePosition(index, totalLines, s) ==
    IF s = "circle" /\ totalLines >= 2
    THEN DefaultCircle(index, totalLines)
    ELSE DefaultStack(index, totalLines)

\* The literals 1.2 and 0.6.
OnePointTwo == Dec(12, 10)

ZeroPointSix == Dec(6, 10)

\* const lineHeight = line.fontSize * 1.2
LineHeight(line) == FMul(line["fontSize"], OnePointTwo)

\* const availableHeight = shape === 'circle' ? 160 : 180
AvailableHeight(s) == IF s = "circle" THEN Num(160) ELSE Num(180)

RECURSIVE TotalTextHeight(_, _)
\* lines.reduce((total, line) => total + line.fontSize * 1.2, 0) over the
\* first n lines.
TotalTextHeight(ls, n) ==
    IF n = 0 THEN 0 ELSE FAdd(TotalTextHeight(ls, n - 1), LineHeight(ls[n]))

\* const spacing = lineCount > 1 ? (availableHeight - totalTextHeight) / (lineCount - 1) : 0
Spacing(ls, s) ==
    IF Len(ls) > 1
    THEN FDiv(FSub(AvailableHeight(s), TotalTextHeight(ls, Len(ls))), Num(Len(ls) - 1))
    ELSE 0

\* Mutant of Recurve: interior lines keep the curved flag they had.
Recurve_KeepInterior(line, s, n, lineCount) ==
    IF s = "circle" /\ lineCount > 1
    THEN IF n = 1 THEN With(With(line, "curved", TRUE), "curvature", "top")
         ELSE IF n = lineCount
         THEN With(With(line, "curved", TRUE), "curvature", "bottom")
         ELSE line
    ELSE line

\* The curved/curvature assignments of the map callback of distributeLines
\* for the line at position n (1-based; index = n - 1).
Recurve(line, s, n, lineCount) ==
    IF s = "circle" /\ lineCount > 1
    THEN IF n = 1 THEN With(With(line, "curved", TRUE), "curvature", "top")
         ELSE IF n = lineCount
         THEN With(With(line, "curved", TRUE), "curvature", "bottom")
         ELSE With(line, "curved", FALSE)
    ELSE line

\* Mutant of DistributeLine: the line is placed at the top edge of its slot
\* instead of its middle.
DistributeLine_TopEdge(ls, s, n, currentY) ==
    LET yPosition == currentY
        newLine == Recurve(ls[n], s, n, Len(ls))
    IN  With(newLine, "yPosition",
             FMul(FDiv(yPosition, FDiv(AvailableHeight(s), Num(2))), Num(100)))

\* The map callback of distributeLines for the line at position n, reached
\* with the running currentY.
DistributeLine(ls, s, n, currentY) ==
    LET yPosition == FAdd(currentY, FDiv(LineHeight(ls[n]), Num(2)))
        newLine == Recurve(ls[n], s, n, Len(ls))
    IN  With(newLine, "yPosition",
             FMul(FDiv(yPosition, FDiv(AvailableHeight(s), Num(2))), Num(100)))

RECURSIVE MapFrom(_, _, _, _, _)
\* lines.map(...) from position n on: each callback places its line, then
\* currentY += lineHeight + spacing.
MapFrom(ls, s, spacing, n, currentY) ==
    IF n > Len(ls) THEN <<>>
    ELSE <<DistributeLine(ls, s, n, currentY)>>
            \o MapFrom(ls, s, spacing, n + 1,
                       FAdd(currentY, FAdd(LineHeight(ls[n]), spacing)))

\* Mutant of distributeLines: lines without text are dropped before layout.
distributeLines_SkipEmpty(ls, s) ==
    LET kept == SelectSeq(ls, LAMBDA l : "text" \in DOMAIN l /\ l["text"] # "")
    IN  IF Len(kept) = 0 THEN <<>>
        ELSE MapFrom(kept, s, Spacing(kept, s), 1, FDiv(-AvailableHeight(s), Num(2)))

distributeLines(ls, s) ==
    IF Len(ls) = 0 THEN <<>>
    ELSE MapFrom(ls, s, Spacing(ls, s), 1, FDiv(-AvailableHeight(s), Num(2)))

\* `line.fontSize || 16`
FontSizeOr16(line) ==
    IF "fontSize" \in DOMAIN line /\ line["fontSize"] # 0 THEN line["fontSize"] ELSE Num(16)

\* `(line.text || '').length`
TextLength(line) == IF "text" \in DOMAIN line THEN Len(line["text"]) ELSE 0

\* (line.text || '').length * (line.fontSize || 16) * 0.6
TextWidth(line) == FMul(FMul(Num(TextLength(line)), FontSizeOr16(line)), ZeroPointSix)

\* Mutant of PairCollides: the required distance taken from line1 alone.
PairCollides_FirstHeight(line1, line2) ==
    LET line1Height == FontSizeOr16(line1)
        yDistance == Abs(FSub(OrZero(line1, "yPosition"), OrZero(line2, "yPosition")))
        minRequiredDistance == FMul(FAdd(line1Height, line1Height), ZeroPointSix)
        xDistance == Abs(FSub(OrZero(line1, "xPosition"), OrZero(line2, "xPosition")))
        horizontalOverlap ==
            xDistance < FDiv(FAdd(TextWidth(line1), TextWidth(line2)), Num(2))
    IN  yDistance < minRequiredDistance /\ horizontalOverlap

\* The test of the inner loop body of detectLineCollisions on line1, line2.
PairCollides(line1, line2) ==
    LET line1Height == FontSizeOr16(line1)
        line2Height == FontSizeOr16(line2)
        yDistance == Abs(FSub(OrZero(line1, "yPosition"), OrZero(line2, "yPosition")))
        minRequiredDistance == FMul(FAdd(line1Height, line2Height), ZeroPointSix)
        xDistance == Abs(FSub(OrZero(line1, "xPosition"), OrZero(line2, "xPosition")))
        horizontalOverlap ==
            xDistance < FDiv(FAdd(TextWidth(line1), TextWidth(line2)), Num(2))
    IN  yDistance < minRequiredDistance /\ horizontalOverlap

\* Mutant of detectLineCollisions: only neighbouring lines are compared.
detectLineCollisions_AdjacentOnly(ls, s) ==
    IF Len(ls) < 2 THEN FALSE
    ELSE \E i \in 1 .. Len(ls) - 1 : PairCollides(ls[i], ls[i + 1])

\* The shape argument is not read by the code.
detectLineCollisions(ls, s) ==
    IF Len(ls) < 2 THEN FALSE
    ELSE \E i \in 1 .. Len(ls) - 1 : \E j \in i + 1 .. Len(ls) :
            PairCollides(ls[i], ls[j])

\* static calculateAvailableHeight(shape)
calculateAvailableHeight(s) == IF s = "circle" THEN Num(160) ELSE Num(180)

\* `line.curved` read as a condition: a missing field is falsy.
IsCurved(line) == "curved" \in DOMAIN line /\ line["curved"] = TRUE

\* 100 - Math.max(safeZone.top, safeZone.right, safeZone.bottom, safeZone.left)
TextSafeRadius(safeZone) ==
    FSub(Num(100), Num(Max(Max(safeZone.top, safeZone.right),
                           Max(safeZone.bottom, safeZone.left))))

\* The rectangle/square branch of isTextWithinSafeZone: the estimated text
\* box against the safe rectangle.
TextInBox(x, y, width, height, safeZone) ==
    LET textLeft == FSub(x, FDiv(width, Num(2)))
        textRight == FAdd(x, FDiv(width, Num(2)))
        textTop == FSub(y, FDiv(height, Num(2)))
        textBottom == FAdd(y, FDiv(height, Num(2)))
        safeLeft == FAdd(Num(-100), Num(safeZone.left))
        safeRight == FSub(Num(100), Num(safeZone.right))
        safeTop == FAdd(Num(-100), Num(safeZone.top))
        safeBottom == FSub(Num(100), Num(safeZone.bottom))
    IN  /\ textLeft >= safeLeft
        /\ textRight <= safeRight
        /\ textTop >= safeTop
        /\ textBottom <= safeBottom

\* The circle branch of isTextWithinSafeZone.
TextInCircle(x, y, width, height, curved, safeZone) ==
    IF curved
    THEN FAdd(Abs(y), FDiv(height, Num(2))) <= TextSafeRadius(safeZone)
    ELSE LET distanceFromCenter == FSqrt(FAdd(FSquare(x), FSquare(y)))
             textBoxDiagonal ==
                 FSqrt(FAdd(FSquare(FDiv(width, Num(2))), FSquare(FDiv(height, Num(2)))))
         IN  FAdd(distanceFromCenter, textBoxDiagonal) <= TextSafeRadius(safeZone)

isTextWithinSafeZone(text, line, s) ==
    IF text = "" THEN TRUE
    ELSE LET fontSize == line["fontSize"]
             estimatedCharWidth == FMul(fontSize, ZeroPointSix)
             estimatedTextWidth == FMul(Num(Len(text)), estimatedCharWidth)
             estimatedTextHeight == FMul(fontSize, OnePointTwo)
             x == OrZero(line, "xPosition")
             y == OrZero(line, "yPosition")
             safeZone == getSafeZone(s)
         IN  IF s = "rectangle" \/ s = "square"
             THEN TextInBox(x, y, estimatedTextWidth, estimatedTextHeight, safeZone)
             ELSE IF s = "circle"
             THEN TextInCircle(x, y, estimatedTextWidth, estimatedTextHeight,
                               IsCurved(line), safeZone)
             ELSE TRUE

---------------------------------------------------------------------------
(* Inputs *)

\* Coordinates offered as inputs: a grid that reaches beyond the frame
\* [-100, 100], and the values around the safe boundary.
Coords ==
    {Num(k * CoordStep) : k \in -MaxK .. MaxK}
        \cup {Num(80), Num(95), Num(97), Num(98), Num(99)}
        \cup {-Num(80), -Num(95), -Num(97), -Num(98), -Num(99)}

NoZone == [top |-> 0, right |-> 0, bottom |-> 0, left |-> 0]

NoLine == [fontSize |-> 0]

\* A canvas context nothing has been drawn on: the identity transform (no
\* operation applied), an empty stack of saved states.
NoCtx == [transform |-> <<>>, stack |-> <<>>, saves |-> 0, restores |-> 0, drawn |-> <<>>]

\* No activation of the curved-text routine.
Idle == [pc |-> "idle"]

\* No designer hook is mounted.
NoHook == [variant |-> "none"]

\* Before any call: nothing returned, no renderer running.
InitAux ==
    /\ ret = 0
    /\ arg = <<>>
    /\ ctx = NoCtx
    /\ render = Idle
    /\ stampRadius = 0
    /\ hook = NoHook

\* A line of the safe-zone specification: any position, either coordinate
\* possibly missing.
ZoneLines ==
    LET base == [text |-> "ABCDE", fontSize |-> Num(16), curved |-> FALSE,
                 curvature |-> "top"]
    IN  {With(With(base, "xPosition", x), "yPosition", y) : x \in Coords, y \in Coords}
            \cup {With(base, "yPosition", y) : y \in Coords}
            \cup {With(base, "xPosition", x) : x \in Coords}
            \cup {base}

\* The lines of the layout specification, as
\* <<text, fontSize, xPosition, yPosition, curved, curvature>>; one more line
\* has no position and no curvature (the optional fields missing).
LayoutInputs ==
    { <<"HELLO", 16, 0, 0, FALSE, "top">>,
      <<"AB", 10, 0, 25, FALSE, "top">>,
      <<"STAMP", 28, 0, 0, TRUE, "bottom">>,
      <<"", 16, 0, 0, FALSE, "bottom">>,
      <<"HELLO", 16, 50, 0, TRUE, "top">> }

LayoutLines ==
    { [text |-> t[1], fontSize |-> Num(t[2]), xPosition |-> Num(t[3]),
       yPosition |-> Num(t[4]), curved |-> t[5], curvature |-> t[6]] : t \in LayoutInputs }
        \cup { [text |-> "AB", fontSize |-> Num(16), curved |-> FALSE] }

RECURSIVE SeqsUpTo(_, _)
\* The sequences over S of length at most n.
SeqsUpTo(S, n) ==
    IF n = 0 THEN { <<>> }
    ELSE LET shorter == SeqsUpTo(S, n - 1)
         IN  shorter \cup { Append(q, x) : q \in shorter, x \in S }

---------------------------------------------------------------------------
(* Operations: the service applied to the design's lines *)

\* Mutant of EnforceSafeZoneCall: the positions are written to the argument
\* itself (newLine = line).
EnforceSafeZoneCall_InPlace(line, s) ==
    [line |-> enforceSafeZone(line, s), newLine |-> enforceSafeZone(line, s)]

\* A call of enforceSafeZone as its caller sees it: the returned newLine, and
\* the argument line after the call.  newLine is a copy ({ ...line }) and
\* every write goes to it, so the argument keeps its fields.
EnforceSafeZoneCall(line, s) ==
    [line |-> line, newLine |-> enforceSafeZone(line, s)]

\* A call of distributeLines as its caller sees it: the returned list, and
\* the argument list after the call.  lines.map builds a new list and each
\* callback writes to its copy newLine = { ...line }.
DistributeLinesCall(ls, s) ==
    [lines |-> ls, result |-> distributeLines(ls, s)]

\* lines[i] = TextPositioningService.enforceSafeZone(lines[i], shape)
CallEnforceSafeZone(i) ==
    /\ i \in 1 .. Len(lines)
    /\ prev' = lines
    /\ LET call == EnforceSafeZoneCall(lines[i], shape)
       IN  /\ lines' = [lines EXCEPT ![i] = call.newLine]
           /\ arg' = call.line
    /\ op' = "enforceSafeZone"
    /\ idx' = i - 1
    /\ UNCHANGED <<shape, total, flag, zone, deflt>>
    /\ UNCHANGED <<ret, ctx, render, stampRadius, hook>>

\* TextPositioningService.isOutsideSafeZone(lines[i], shape)
CallIsOutsideSafeZone(i) ==
    /\ i \in 1 .. Len(lines)
    /\ prev' = lines
    /\ flag' = isOutsideSafeZone(lines[i], shape)
    /\ op' = "isOutsideSafeZone"
    /\ idx' = i - 1
    /\ UNCHANGED <<shape, lines, total, zone, deflt>>
    /\ UNCHANGED auxVars

\* TextPositioningService.getSafeZone(shape)
CallGetSafeZone ==
    /\ zone' = getSafeZone(shape)
    /\ op' = "getSafeZone"
    /\ prev' = lines
    /\ UNCHANGED <<shape, lines, idx, total, flag, deflt>>
    /\ UNCHANGED auxVars

\* lines = TextPositioningService.distributeLines(lines, shape)
CallDistributeLines ==
    /\ prev' = lines
    /\ LET call == DistributeLinesCall(lines, shape)
       IN  /\ lines' = call.result
           /\ arg' = call.lines
    /\ op' = "distributeLines"
    /\ UNCHANGED <<shape, idx, total, flag, zone, deflt>>
    /\ UNCHANGED <<ret, ctx, render, stampRadius, hook>>

\* TextPositioningService.detectLineCollisions(lines, shape)
CallDetectLineCollisions ==
    /\ prev' = lines
    /\ flag' = detectLineCollisions(lines, shape)
    /\ op' = "detectLineCollisions"
    /\ UNCHANGED <<shape, lines, idx, total, zone, deflt>>
    /\ UNCHANGED auxVars

\* TextPositioningService.getDefaultLinePosition(index, totalLines, shape)
CallGetDefaultLinePosition(index, totalLines) ==
    /\ deflt' = getDefaultLinePosition(index, totalLines, shape)
    /\ idx' = index
    /\ total' = totalLines
    /\ op' = "getDefaultLinePosition"
    /\ prev' = lines
    /\ UNCHANGED <<shape, lines, flag, zone>>
    /\ UNCHANGED auxVars

---------------------------------------------------------------------------
(* Specification of the safe-zone calculator: one line, any position *)

InitZone ==
    /\ shape \in Shapes
    /\ \E l \in ZoneLines : lines = <<l>>
    /\ prev = lines
    /\ op = "init"
    /\ idx = 0
    /\ total = 0
    /\ flag = FALSE
    /\ zone = NoZone
    /\ deflt = NoLine
    /\ InitAux

NextZone ==
    \/ \E i \in 1 .. Len(lines) : CallEnforceSafeZone(i)
    \/ \E i \in 1 .. Len(lines) : CallIsOutsideSafeZone(i)
    \/ CallGetSafeZone

SpecZone == InitZone /\ [][NextZone]_vars

---------------------------------------------------------------------------
(* Specification of the planners and the collision detector: up to        *)
(* MaxLines lines                                                          *)

InitLayout ==
    /\ shape \in Shapes
    /\ lines \in SeqsUpTo(LayoutLines, MaxLines)
    /\ prev = lines
    /\ op = "init"
    /\ idx = 0
    /\ total = 0
    /\ flag = FALSE
    /\ zone = NoZone
    /\ deflt = NoLine
    /\ InitAux

NextLayout ==
    \/ CallDistributeLines
    \/ CallDetectLineCollisions

SpecLayout == InitLayout /\ [][NextLayout]_vars

---------------------------------------------------------------------------
(* Specification of the default layout planner: every index of every       *)
(* totalLines up to MaxTotal                                               *)

InitDefault ==
    /\ shape \in Shapes
    /\ lines = <<>>
    /\ prev = lines
    /\ op = "init"
    /\ idx = 0
    /\ total = 0
    /\ flag = FALSE
    /\ zone = NoZone
    /\ deflt = NoLine
    /\ InitAux

NextDefault ==
    \E totalLines \in 1 .. MaxTotal : \E index \in 0 .. totalLines - 1 :
        CallGetDefaultLinePosition(index, totalLines)

SpecDefault == InitDefault /\ [][NextDefault]_vars

---------------------------------------------------------------------------
(* Claims on the safe-zone calculator (checked under SpecZone) *)

\* The line the last operation was applied to, and the line it left.
Before == prev[idx + 1]
After == lines[idx + 1]

\* C1: for every shape and every line position, applying enforceSafeZone to
\* the result of enforceSafeZone gives that result again:
\* enforceSafeZone(enforceSafeZone(L,S),S) = enforceSafeZone(L,S).
C1_EnforceIdempotent ==
    op = "enforceSafeZone" => enforceSafeZone(After, shape) = After

\* C2: for every shape and every line L (any xPosition, yPosition, missing
\* ones read as 0), isOutsideSafeZone(enforceSafeZone(L,S), S) is false.
C2_EnforcedIsInside ==
    op = "enforceSafeZone" => ~isOutsideSafeZone(After, shape)

\* C3: for shape circle, enforceSafeZone leaves unchanged a line whose
\* distance from the centre is at most the safe radius, and maps a line
\* farther out radially: both coordinates are multiplied by the same factor
\* safeRadius/distance (0 < factor < 1), so the signs of x and y are kept and
\* their ratio is kept (x' * y and y' * x agree within 4 units in the last
\* place), the result lies on the safe-radius circle within 4 units in the
\* last place of the safe radius, the result is never the per-axis clamp of
\* the line, and no other field changes.
C3_CircleRadialProjection ==
    (op = "enforceSafeZone" /\ shape = "circle") =>
        LET x == OrZero(Before, "xPosition")
            y == OrZero(Before, "yPosition")
            d == DistanceFromCenter(Before)
        IN  IF d <= SafeRadius
            THEN After = Before
            ELSE LET ratio == FDiv(SafeRadius, d)
                     nx == After["xPosition"]
                     ny == After["yPosition"]
                 IN  /\ 0 < ratio /\ ratio < Num(1)
                     /\ nx = FMul(x, ratio)
                     /\ ny = FMul(y, ratio)
                     /\ Sgn(nx) = Sgn(x)
                     /\ Sgn(ny) = Sgn(y)
                     /\ Abs(FMul(nx, y) - FMul(ny, x))
                            <= 4 * Ulp(Max(Abs(FMul(nx, y)), Abs(FMul(ny, x))))
                     /\ Abs(DistanceFromCenter(After) - SafeRadius)
                            <= 4 * Ulp(SafeRadius)
                     /\ After # EnforceBox(Before)
                     /\ \A f \in DOMAIN Before \ {"xPosition", "yPosition"} :
                            After[f] = Before[f]

\* C3 witness: Scenario D, the circle line at (80, 80), has been projected:
\* both coordinates shrank by the same factor and stayed positive.
C3_Witness ==
    /\ op = "enforceSafeZone"
    /\ shape = "circle"
    /\ "xPosition" \in DOMAIN Before
    /\ "yPosition" \in DOMAIN Before
    /\ Before["xPosition"] = Num(80)
    /\ Before["yPosition"] = Num(80)
    /\ After["xPosition"] = After["yPosition"]
    /\ After["xPosition"] > Num(68)
    /\ After["xPosition"] < Num(69)

\* C10: getSafeZone returns the margins {top: 2, right: 2, bottom: 2,
\* left: 2} for each of the shapes circle, square and rectangle.
C10_UniformSafeZone ==
    op = "getSafeZone" =>
        /\ zone = [top |-> 2, right |-> 2, bottom |-> 2, left |-> 2]
        /\ \A s \in Shapes : getSafeZone(s) = zone

\* C10 witness: getSafeZone has been applied to a circle.
C10_Witness ==
    /\ op = "getSafeZone"
    /\ shape = "circle"
    /\ zone["top"] = zone["left"]

---------------------------------------------------------------------------
(* Claims on the even distribution planner and the collision detector     *)
(* (checked under SpecLayout)                                              *)

\* C4: distributeLines returns [] for an empty list, and for any non-empty
\* list and any shape returns a list of the same length whose i-th element
\* carries the text of the i-th input line (order preserved).
C4_DistributeKeepsLengthAndOrder ==
    op = "distributeLines" =>
        /\ Len(prev) = 0 => lines = <<>>
        /\ Len(lines) = Len(prev)
        /\ \A i \in 1 .. Len(prev) : lines[i]["text"] = prev[i]["text"]

\* C4 witness: three lines with three different texts, one of them empty,
\* have been redistributed (and moved).
C4_Witness ==
    /\ op = "distributeLines"
    /\ Len(prev) = 3
    /\ prev[1]["text"] = "STAMP"
    /\ prev[2]["text"] = ""
    /\ prev[3]["text"] = "AB"
    /\ lines # prev

\* C5: for shape circle and any list of at least 2 lines, after
\* distributeLines the first line has curved = true and curvature = 'top',
\* the last line has curved = true and curvature = 'bottom', and every
\* interior line has curved = false, whatever the input lines had.
C5_CircleCurvesFirstAndLast ==
    (op = "distributeLines" /\ shape = "circle" /\ Len(prev) >= 2) =>
        LET n == Len(lines)
        IN  /\ lines[1]["curved"] = TRUE
            /\ lines[1]["curvature"] = "top"
            /\ lines[n]["curved"] = TRUE
            /\ lines[n]["curvature"] = "bottom"
            /\ \A i \in 2 .. n - 1 : lines[i]["curved"] = FALSE

\* C5 witness: on a circle, a first line that was curved along the bottom,
\* an interior line that was curved and a last line that was straight have
\* been redistributed.
C5_Witness ==
    /\ op = "distributeLines"
    /\ shape = "circle"
    /\ Len(prev) = 3
    /\ prev[1]["curved"] = TRUE
    /\ prev[1]["curvature"] = "bottom"
    /\ prev[2]["curved"] = TRUE
    /\ prev[3]["curved"] = FALSE
    /\ lines[2]["curved"] = FALSE

\* C6: detectLineCollisions(lines, shape) returns the same boolean for
\* every permutation of the same list of lines.
C6_CollisionOrderIndependent ==
    op = "detectLineCollisions" =>
        \A p \in Permutations(1 .. Len(lines)) :
            LET permuted == [i \in 1 .. Len(lines) |-> lines[p[i]]]
            IN  detectLineCollisions(permuted, shape) = flag

\* C6 witness: a collision has been reported for three different lines of
\* which only the last two collide.
C6_Witness ==
    /\ op = "detectLineCollisions"
    /\ flag = TRUE
    /\ Len(lines) = 3
    /\ ~PairCollides(lines[1], lines[2])
    /\ ~PairCollides(lines[1], lines[3])
    /\ PairCollides(lines[2], lines[3])
    /\ lines[1] # lines[2]
    /\ lines[2] # lines[3]
    /\ lines[1] # lines[3]

\* C7: detectLineCollisions returns true exactly when some pair of distinct
\* lines has |y1-y2| < (fontSize1+fontSize2)*0.6 and
\* |x1-x2| < (len1*fontSize1*0.6 + len2*fontSize2*0.6)/2 (positions that are
\* missing read as 0), and returns false for fewer than 2 lines; two lines
\* at identical positions with non-empty text and positive font size always
\* collide.
C7_CollisionExactlyPairTest ==
    op = "detectLineCollisions" =>
        LET x(l) == OrZero(l, "xPosition")
            y(l) == OrZero(l, "yPosition")
            w(l) == FMul(FMul(Num(Len(l["text"])), l["fontSize"]), ZeroPointSix)
            close(a, b) ==
                /\ Abs(FSub(y(a), y(b)))
                        < FMul(FAdd(a["fontSize"], b["fontSize"]), ZeroPointSix)
                /\ Abs(FSub(x(a), x(b))) < FDiv(FAdd(w(a), w(b)), Num(2))
            n == Len(lines)
        IN  /\ flag = (\E i \in 1 .. n : \E j \in 1 .. n : i # j /\ close(lines[i], lines[j]))
            /\ n < 2 => flag = FALSE
            /\ \A i \in 1 .. n : \A j \in 1 .. n :
                    ( /\ i # j
                      /\ x(lines[i]) = x(lines[j])
                      /\ y(lines[i]) = y(lines[j])
                      /\ lines[i]["text"] # ""
                      /\ lines[j]["text"] # ""
                      /\ lines[i]["fontSize"] > 0
                      /\ lines[j]["fontSize"] > 0 ) => flag = TRUE

\* C7 witness: Scenario C, two lines at the same position with fontSize 16
\* and five characters each, have been reported as colliding.
C7_Witness ==
    /\ op = "detectLineCollisions"
    /\ Len(lines) = 2
    /\ lines[1] = lines[2]
    /\ lines[1]["text"] = "HELLO"
    /\ lines[1]["fontSize"] = Num(16)
    /\ "yPosition" \in DOMAIN lines[1]
    /\ flag = TRUE

---------------------------------------------------------------------------
(* Claims on the default layout planner (checked under SpecDefault) *)

\* C8: for shape circle and every totalLines >= 2, getDefaultLinePosition
\* returns for index 0 a curved top line at yPosition -70 with fontSize 14,
\* for index totalLines-1 a curved bottom line at yPosition 70 with fontSize
\* 14, and for every interior index i a straight line at
\* yPosition = -40 + i*100/(totalLines-1) (to the last place of the Number),
\* strictly between -40 and 60.
C8_CircleDefaults ==
    (op = "getDefaultLinePosition" /\ shape = "circle" /\ total >= 2) =>
        IF idx = 0
        THEN /\ deflt["curved"] = TRUE
             /\ deflt["curvature"] = "top"
             /\ deflt["yPosition"] = Num(-70)
             /\ deflt["fontSize"] = Num(14)
        ELSE IF idx = total - 1
        THEN /\ deflt["curved"] = TRUE
             /\ deflt["curvature"] = "bottom"
             /\ deflt["yPosition"] = Num(70)
             /\ deflt["fontSize"] = Num(14)
        ELSE LET scaled == (idx * 100 - 40 * (total - 1)) * Unit
             IN  /\ deflt["curved"] = FALSE
                 /\ Abs(deflt["yPosition"] * (total - 1) - scaled)
                        <= 2 * Ulp(Num(100)) * (total - 1)
                 /\ deflt["yPosition"] > Num(-40)
                 /\ deflt["yPosition"] < Num(60)

\* C8 witness: Scenario A, the interior line of a 3-line circle, is straight
\* at yPosition 10.
C8_Witness ==
    /\ op = "getDefaultLinePosition"
    /\ shape = "circle"
    /\ total = 3
    /\ idx = 1
    /\ deflt["curved"] = FALSE
    /\ deflt["yPosition"] = Num(10)

\* C9: for shape rectangle or square with every totalLines >= 1 (and for
\* circle with totalLines = 1), getDefaultLinePosition returns a straight
\* line with yPosition = -availableHeight/2 + spacing/2 + index*spacing,
\* where availableHeight = 180 and spacing = availableHeight/totalLines; so
\* a single line is placed at yPosition 0 and 4 lines start at -67.5 with
\* step 45.
C9_StackDefaults ==
    (op = "getDefaultLinePosition" /\ (shape # "circle" \/ total = 1)) =>
        LET availableHeight == Num(180)
            spacing == FDiv(availableHeight, Num(total))
            formula == FAdd(FAdd(FDiv(-availableHeight, Num(2)), FDiv(spacing, Num(2))),
                            FMul(Num(idx), spacing))
        IN
        /\ deflt["curved"] = FALSE
        /\ deflt["yPosition"] = formula
        /\ total = 1 => deflt["yPosition"] = 0
        /\ total = 4 => deflt["yPosition"] = FAdd(Dec(-675, 10), FMul(Num(idx), Num(45)))

---------------------------------------------------------------------------
(* Specification of the shape switches: one line, the three shapes and a   *)
(* value that is none of them                                              *)

\* The shapes and a malformed shape value.
AnyShapes == Shapes \cup {"triangle"}

\* Coordinates at the centre, inside, on the edge of and beyond the frame.
EdgeCoords == {0, Num(50), Num(99), -Num(99), Num(150)}

\* `line.text` handed on as an argument: a missing text is falsy, like ''.
TextOf(line) == IF "text" \in DOMAIN line THEN line["text"] ELSE ""

\* The lines the shape switches are applied to.
EdgeLines ==
    { [text |-> t, fontSize |-> Num(16), xPosition |-> x, yPosition |-> y,
       curved |-> FALSE, curvature |-> "top"] :
          t \in {"", "ABCDE"}, x \in EdgeCoords, y \in EdgeCoords }

\* TextPositioningService.isTextWithinSafeZone(lines[i].text, lines[i], shape)
CallIsTextWithinSafeZone(i) ==
    /\ i \in 1 .. Len(lines)
    /\ prev' = lines
    /\ flag' = isTextWithinSafeZone(TextOf(lines[i]), lines[i], shape)
    /\ op' = "isTextWithinSafeZone"
    /\ idx' = i - 1
    /\ UNCHANGED <<shape, lines, total, zone, deflt, auxVars>>

\* TextPositioningService.calculateAvailableHeight(shape)
CallCalculateAvailableHeight ==
    /\ ret' = calculateAvailableHeight(shape)
    /\ op' = "calculateAvailableHeight"
    /\ prev' = lines
    /\ UNCHANGED <<shape, lines, idx, total, flag, zone, deflt, arg, ctx, render, stampRadius, hook>>

InitAnyShape ==
    /\ shape \in AnyShapes
    /\ \E l \in EdgeLines : lines = <<l>>
    /\ prev = lines
    /\ op = "init"
    /\ idx = 0
    /\ total = 0
    /\ flag = FALSE
    /\ zone = NoZone
    /\ deflt = NoLine
    /\ InitAux

\* Each behaviour applies one operation to the arguments drawn by InitAnyShape.
NextAnyShape ==
    \/ \E totalLines \in 1 .. MaxTotal : \E index \in 0 .. totalLines - 1 :
          op = "init" /\ CallGetDefaultLinePosition(index, totalLines)
    \/ op = "init" /\ CallDistributeLines
    \/ \E i \in 1 .. Len(lines) : op = "init" /\ CallEnforceSafeZone(i)
    \/ \E i \in 1 .. Len(lines) : op = "init" /\ CallIsOutsideSafeZone(i)
    \/ \E i \in 1 .. Len(lines) : op = "init" /\ CallIsTextWithinSafeZone(i)
    \/ op = "init" /\ CallCalculateAvailableHeight

SpecAnyShape == InitAnyShape /\ [][NextAnyShape]_vars

\* C11: for a shape value that is none of 'rectangle', 'square', 'circle',
\* each of getDefaultLinePosition, distributeLines, enforceSafeZone,
\* isOutsideSafeZone, isTextWithinSafeZone and calculateAvailableHeight
\* returns what it returns for 'rectangle' on the same other arguments.
C11_MalformedShapeAsRectangle ==
    shape \notin Shapes =>
        /\ op = "getDefaultLinePosition" =>
              deflt = getDefaultLinePosition(idx, total, "rectangle")
        /\ op = "distributeLines" => lines = distributeLines(prev, "rectangle")
        /\ op = "enforceSafeZone" =>
              lines[idx + 1] = enforceSafeZone(prev[idx + 1], "rectangle")
        /\ op = "isOutsideSafeZone" =>
              flag = isOutsideSafeZone(prev[idx + 1], "rectangle")
        /\ op = "isTextWithinSafeZone" =>
              flag = isTextWithinSafeZone(TextOf(prev[idx + 1]), prev[idx + 1], "rectangle")
        /\ op = "calculateAvailableHeight" =>
              ret = calculateAvailableHeight("rectangle")

---------------------------------------------------------------------------
(* Specification of the text-box safe-zone tests: up to MaxLines lines     *)
(* with text                                                               *)

RECURSIVE OutsideFrom(_, _, _)
\* lines.forEach((line, index) => ...) from position n on (index = n - 1):
\* the index is pushed when the line's text is not within the safe zone.
OutsideFrom(ls, s, n) ==
    IF n > Len(ls) THEN <<>>
    ELSE (IF ~isTextWithinSafeZone(TextOf(ls[n]), ls[n], s) THEN <<n - 1>> ELSE <<>>)
            \o OutsideFrom(ls, s, n + 1)

\* Mutant of getLinesOutsideSafeZone: the lines are tested by their anchor
\* point (isOutsideSafeZone).
getLinesOutsideSafeZone_Anchor(ls, s) ==
    LET hit == {i \in 1 .. Len(ls) : isOutsideSafeZone(ls[i], s)}
    IN  [k \in 1 .. Cardinality(hit) |->
            (CHOOSE i \in hit : Cardinality({j \in hit : j < i}) = k - 1) - 1]

getLinesOutsideSafeZone(ls, s) ==
    IF Len(ls) = 0 THEN <<>> ELSE OutsideFrom(ls, s, 1)

\* The lines the text-box tests are applied to, as
\* <<text, fontSize, xPosition, yPosition, curved, curvature>>; one more line
\* has no position.
TextInputs ==
    { <<"HELLO", 16, 0, 0, FALSE, "top">>,
      <<"HELLO", 16, 90, 0, FALSE, "top">>,
      <<"AB", 10, 50, 80, TRUE, "top">>,
      <<"AB", 10, 60, 80, TRUE, "top">>,
      <<"STAMP", 28, 0, -95, TRUE, "bottom">>,
      <<"", 16, 150, 150, FALSE, "top">> }

TextLines ==
    { [text |-> t[1], fontSize |-> Num(t[2]), xPosition |-> Num(t[3]),
       yPosition |-> Num(t[4]), curved |-> t[5], curvature |-> t[6]] : t \in TextInputs }
        \cup { [text |-> "AB", fontSize |-> Num(16), curved |-> FALSE] }

\* TextPositioningService.getLinesOutsideSafeZone(lines, shape)
CallGetLinesOutsideSafeZone ==
    /\ ret' = getLinesOutsideSafeZone(lines, shape)
    /\ op' = "getLinesOutsideSafeZone"
    /\ prev' = lines
    /\ UNCHANGED <<shape, lines, idx, total, flag, zone, deflt, arg, ctx, render, stampRadius, hook>>

InitText ==
    /\ shape \in Shapes
    /\ lines \in SeqsUpTo(TextLines, MaxLines)
    /\ prev = lines
    /\ op = "init"
    /\ idx = 0
    /\ total = 0
    /\ flag = FALSE
    /\ zone = NoZone
    /\ deflt = NoLine
    /\ InitAux

\* Each behaviour applies one test to the lines drawn by InitText.
NextText ==
    \/ \E i \in 1 .. Len(lines) : op = "init" /\ CallIsTextWithinSafeZone(i)
    \/ \E i \in 1 .. Len(lines) : op = "init" /\ CallIsOutsideSafeZone(i)
    \/ op = "init" /\ CallGetLinesOutsideSafeZone

SpecText == InitText /\ [][NextText]_vars

\* C12: the box-aware test is at least as strict as the anchor-point test:
\* for every shape, every line (straight or curved) and every non-empty
\* text, if isTextWithinSafeZone(text, line, shape) is true then
\* isOutsideSafeZone(line, shape) is false.
C12_TextTestStricterThanAnchor ==
    (op = "isTextWithinSafeZone" /\ TextOf(prev[idx + 1]) # "" /\ flag = TRUE) =>
        ~isOutsideSafeZone(prev[idx + 1], shape)

\* C13: getLinesOutsideSafeZone(lines, shape) returns, in ascending order and
\* without duplicates, exactly the (0-based) indices i for which
\* isTextWithinSafeZone(lines[i].text, lines[i], shape) is false; it returns
\* [] for an empty list and never reports a line whose text is empty.
C13_OutsideIndicesExact ==
    op = "getLinesOutsideSafeZone" =>
        /\ \A k \in 1 .. Len(ret) - 1 : ret[k] < ret[k + 1]
        /\ {ret[k] : k \in 1 .. Len(ret)} =
              {i - 1 : i \in {j \in 1 .. Len(prev) :
                  ~isTextWithinSafeZone(TextOf(prev[j]), prev[j], shape)}}
        /\ Len(prev) = 0 => ret = <<>>
        /\ \A k \in 1 .. Len(ret) : TextOf(prev[ret[k] + 1]) # ""

\* C13 witness: of three lines, the first and the last are reported and the
\* one between them, with empty text far outside the frame, is not.
C13_Witness ==
    /\ op = "getLinesOutsideSafeZone"
    /\ Len(prev) = 3
    /\ ret = <<0, 2>>
    /\ TextOf(prev[2]) = ""
    /\ isOutsideSafeZone(prev[2], shape)

---------------------------------------------------------------------------
(* Specification of the curved-text radius: one line, any yPosition, any   *)
(* stamp radius up to MaxRadiusK * RadiusStep                              *)

\* Stamp radii offered as inputs are the multiples k * RadiusStep,
\* 0 <= k <= MaxRadiusK.
RadiusStep == 30
MaxRadiusK == 8

\* Mutant of getCurvedTextRadius: the radius is not clamped to the safe
\* radius.
getCurvedTextRadius_NoClamp(line, radiusOfStamp) ==
    LET base == FMul(radiusOfStamp, Dec(8, 10))
        absPosition == Abs(OrZero(line, "yPosition"))
    IN  IF absPosition > Num(50)
        THEN FAdd(base, FMul(FMul(radiusOfStamp, Dec(15, 100)),
                             FDiv(FSub(absPosition, Num(50)), Num(50))))
        ELSE base

\* static getCurvedTextRadius(line, stampRadius); `if (line.yPosition)` is
\* false for a missing and for a zero yPosition.
getCurvedTextRadius(line, radiusOfStamp) ==
    LET base == FMul(radiusOfStamp, Dec(8, 10))
        absPosition == Abs(OrZero(line, "yPosition"))
        radius ==
            IF OrZero(line, "yPosition") # 0 /\ absPosition > Num(50)
            THEN FAdd(base, FMul(FMul(radiusOfStamp, Dec(15, 100)),
                                 FDiv(FSub(absPosition, Num(50)), Num(50))))
            ELSE base
        safeRadius ==
            FMul(radiusOfStamp, FSub(Num(1), FDiv(Num(MARGIN_PERCENT), Num(100))))
    IN  Min(radius, safeRadius)

\* The yPositions of the lines handed to getCurvedTextRadius.
RadiusCoords == Coords \cup {Num(50), Num(51), Num(60), -Num(51), -Num(60)}

\* A curved line at any yPosition, or without one.
RadiusLines ==
    LET base == [text |-> "ABCDE", fontSize |-> Num(14), xPosition |-> 0,
                 curved |-> TRUE, curvature |-> "top"]
    IN  {With(base, "yPosition", y) : y \in RadiusCoords} \cup {base}

Radii == {Num(k * RadiusStep) : k \in 0 .. MaxRadiusK}

\* TextPositioningService.getCurvedTextRadius(lines[1], stampRadius)
CallGetCurvedTextRadius ==
    /\ Len(lines) = 1
    /\ ret' = getCurvedTextRadius(lines[1], stampRadius)
    /\ op' = "getCurvedTextRadius"
    /\ prev' = lines
    /\ UNCHANGED <<shape, lines, idx, total, flag, zone, deflt, arg, ctx, render, stampRadius, hook>>

InitRadius ==
    /\ shape = "circle"
    /\ \E l \in RadiusLines : lines = <<l>>
    /\ prev = lines
    /\ op = "init"
    /\ idx = 0
    /\ total = 0
    /\ flag = FALSE
    /\ zone = NoZone
    /\ deflt = NoLine
    /\ ret = 0
    /\ arg = <<>>
    /\ ctx = NoCtx
    /\ render = Idle
    /\ stampRadius \in Radii
    /\ hook = NoHook

NextRadius == op = "init" /\ CallGetCurvedTextRadius

SpecRadius == InitRadius /\ [][NextRadius]_vars

\* C14: for every stampRadius >= 0 and every yPosition, getCurvedTextRadius
\* returns r with 0.8*stampRadius <= r <= 0.98*stampRadius; r is
\* 0.8*stampRadius when |yPosition| <= 50, r does not decrease as |yPosition|
\* grows above 50, r is 0.95*stampRadius at |yPosition| = 100 (to the last
\* places of the Number), and r never exceeds stampRadius*(1 - 2/100), also
\* for |yPosition| > 100.
C14_CurvedRadiusRange ==
    op = "getCurvedTextRadius" =>
        LET line == prev[1]
            y == Abs(OrZero(line, "yPosition"))
        IN  /\ FMul(stampRadius, Dec(8, 10)) <= ret
            /\ ret <= FMul(stampRadius, Dec(98, 100))
            /\ y <= Num(50) => ret = FMul(stampRadius, Dec(8, 10))
            /\ \A l2 \in RadiusLines :
                  Abs(OrZero(l2, "yPosition")) >= y =>
                      getCurvedTextRadius(l2, stampRadius) >= ret
            /\ y = Num(100) =>
                  Abs(ret - FMul(stampRadius, Dec(95, 100))) <= 2 * Ulp(ret)
            /\ ret <= FMul(stampRadius, FSub(Num(1), FDiv(Num(2), Num(100))))

\* C14 witness: a line beyond the frame (|yPosition| = 150) on a stamp of
\* radius 90 gets the safe radius, and not more.
C14_Witness ==
    /\ op = "getCurvedTextRadius"
    /\ stampRadius = Num(90)
    /\ OrZero(prev[1], "yPosition") = -Num(150)
    /\ ret = FMul(Num(90), Dec(98, 100))
    /\ ret > FMul(Num(90), Dec(95, 100))

---------------------------------------------------------------------------
(* Specification of the millimetre labels of the position sliders *)

\* The tenths shown by `mmValue.toFixed(1)`: mmValue to one decimal, halves
\* away from zero.
ToFixed1(mmValue) == Sgn(mmValue) * ((Abs(mmValue) * 10 + Unit \div 2) \div Unit)

\* Mutant of toMillimeters: the millimetres as the label shows them, to one
\* decimal.
toMillimeters_AsLabelled(coord) == FDiv(Num(ToFixed1(FDiv(coord, Num(4)))), Num(10))

\* const mmValue = value / 4
toMillimeters(coord) == FDiv(coord, Num(4))

\* The inverse conversion: mm * 4.
toCoord(mm) == FMul(mm, Num(4))

\* formatPositionLabel(value): the millimetres and the tenths the label shows.
formatPositionLabel(value) ==
    [mm |-> toMillimeters(value), tenths |-> ToFixed1(toMillimeters(value))]

\* Coordinates the sliders and dragging produce: the grid and thirds and
\* sevenths of it.
MmCoords ==
    Coords \cup {FDiv(c, Num(3)) : c \in Coords} \cup {FDiv(c, Num(7)) : c \in Coords}

MmLines ==
    { [text |-> "ABCDE", fontSize |-> Num(16), xPosition |-> x, yPosition |-> y,
       curved |-> FALSE, curvature |-> "top"] : x \in MmCoords, y \in MmCoords }
       \cup { [text |-> "ABCDE", fontSize |-> Num(16), curved |-> FALSE] }

\* formatPositionLabel(line.xPosition || 0), formatPositionLabel(line.yPosition || 0)
CallFormatPositionLabel(f) ==
    /\ Len(lines) = 1
    /\ ret' = formatPositionLabel(OrZero(lines[1], f))
    /\ arg' = f
    /\ op' = "formatPositionLabel"
    /\ prev' = lines
    /\ UNCHANGED <<shape, lines, idx, total, flag, zone, deflt, ctx, render, stampRadius, hook>>

InitMm ==
    /\ shape \in Shapes
    /\ \E l \in MmLines : lines = <<l>>
    /\ prev = lines
    /\ op = "init"
    /\ idx = 0
    /\ total = 0
    /\ flag = FALSE
    /\ zone = NoZone
    /\ deflt = NoLine
    /\ InitAux

NextMm ==
    \/ op = "init" /\ CallFormatPositionLabel("xPosition")
    \/ op = "init" /\ CallFormatPositionLabel("yPosition")

SpecMm == InitMm /\ [][NextMm]_vars

\* C15: the millimetre conversion is invertible: converting a coordinate to
\* millimetres (coord / 4) and back (mm * 4) returns the original coordinate,
\* and 1 mm is 4 coordinate units.
C15_MillimetreRoundTrip ==
    op = "formatPositionLabel" =>
        /\ toCoord(ret.mm) = OrZero(prev[1], arg)
        /\ toCoord(Num(1)) = Num(4)
        /\ toMillimeters(Num(4)) = Num(1)

\* C15 witness: a coordinate that is not a whole number of tenths of a
\* millimetre (25/3 units) has been converted, and converts back.
C15_Witness ==
    /\ op = "formatPositionLabel"
    /\ arg = "yPosition"
    /\ OrZero(prev[1], "yPosition") = FDiv(Num(25), Num(3))
    /\ ret.mm # 0
    /\ ret.mm * 10 # ret.tenths * Unit
    /\ toCoord(ret.mm) = FDiv(Num(25), Num(3))

---------------------------------------------------------------------------
(* Specification of the distribution of tall stacks: up to MaxStack lines  *)
(* in the font sizes the editor offers                                     *)

\* Most lines in a stack.
MaxStack == 12

\* Font sizes of the editor: the smallest, the default and the largest.
StackFonts == {10, 16, 28}

\* A line of a stack in font size f.
StackLine(f) ==
    [text |-> "TEXT", fontSize |-> Num(f), xPosition |-> 0, yPosition |-> 0,
     curved |-> FALSE, curvature |-> "top"]

\* The stacks: n lines, the first a of them in one font size and the rest in
\* another.
Stacks ==
    { [i \in 1 .. n |-> IF i <= a THEN StackLine(f1) ELSE StackLine(f2)] :
          n \in 1 .. MaxStack, a \in 0 .. MaxStack, f1 \in StackFonts, f2 \in StackFonts }

InitStack ==
    /\ shape \in Shapes
    /\ lines \in Stacks
    /\ prev = lines
    /\ op = "init"
    /\ idx = 0
    /\ total = 0
    /\ flag = FALSE
    /\ zone = NoZone
    /\ deflt = NoLine
    /\ InitAux

NextStack == CallDistributeLines

SpecStack == InitStack /\ [][NextStack]_vars

\* C16: for every shape and every non-empty list of lines with positive font
\* sizes, every line returned by distributeLines has yPosition within the
\* public frame [-100, 100], also when the total text height exceeds the
\* available height (negative spacing) and for a single line.
C16_DistributedInFrame ==
    (op = "distributeLines" /\ Len(prev) >= 1) =>
        \A i \in 1 .. Len(lines) :
            /\ lines[i]["yPosition"] >= Num(-100)
            /\ lines[i]["yPosition"] <= Num(100)

---------------------------------------------------------------------------
(* Specification of the default layout as a whole: every line of a design  *)
(* of up to MaxTotal lines reset to its default position                   *)

\* Texts given to the lines of a default layout.
DefaultTexts == {"A", "HELLO", "COMPANY NAME"}

\* resetLineToDefault: the line with the position, curvature and font size
\* getDefaultLinePosition returns for its index.
ResetLineToDefault(line, index, totalLines, s) ==
    LET defaultPosition == getDefaultLinePosition(index, totalLines, s)
    IN  [line EXCEPT !["xPosition"] = defaultPosition["xPosition"],
                     !["yPosition"] = defaultPosition["yPosition"],
                     !["curved"] = defaultPosition["curved"],
                     !["curvature"] = defaultPosition["curvature"],
                     !["fontSize"] = defaultPosition["fontSize"]]

\* A design of totalLines lines with the same text, every line reset to its
\* default.
ResetAllToDefault(totalLines, text) ==
    /\ lines' = [i \in 1 .. totalLines |->
                    ResetLineToDefault(
                        [text |-> text, fontSize |-> Num(16), xPosition |-> 0,
                         yPosition |-> 0, curved |-> FALSE, curvature |-> "top"],
                        i - 1, totalLines, shape)]
    /\ prev' = lines
    /\ total' = totalLines
    /\ op' = "resetLineToDefault"
    /\ UNCHANGED <<shape, idx, flag, zone, deflt, auxVars>>

InitDefaultLayout ==
    /\ shape \in Shapes
    /\ lines = <<>>
    /\ prev = lines
    /\ op = "init"
    /\ idx = 0
    /\ total = 0
    /\ flag = FALSE
    /\ zone = NoZone
    /\ deflt = NoLine
    /\ InitAux

NextDefaultLayout ==
    \/ \E totalLines \in 1 .. MaxTotal : \E text \in DefaultTexts :
          op = "init" /\ ResetAllToDefault(totalLines, text)
    \/ op = "resetLineToDefault" /\ CallDetectLineCollisions

SpecDefaultLayout == InitDefaultLayout /\ [][NextDefaultLayout]_vars

\* C17: the default layout is non-overlapping: for every shape and every
\* totalLines >= 1, the lines obtained from getDefaultLinePosition for each
\* index 0..totalLines-1, each with a non-empty text, contain no collision:
\* detectLineCollisions on them returns false.
C17_DefaultLayoutCollisionFree ==
    ( /\ op = "detectLineCollisions"
      /\ Len(lines) >= 1
      /\ \A i \in 1 .. Len(lines) :
            /\ lines[i]["text"] # ""
            /\ lines[i]["yPosition"] =
                  getDefaultLinePosition(i - 1, Len(lines), shape)["yPosition"]
            /\ lines[i]["fontSize"] =
                  getDefaultLinePosition(i - 1, Len(lines), shape)["fontSize"] )
        => flag = FALSE

---------------------------------------------------------------------------
(* Specification of the distribution of designs with blank lines: up to    *)
(* MaxLines lines, some with empty or whitespace-only text                 *)

\* The texts that are empty or whitespace-only (`text.trim()` is empty).
BlankTexts == {"", " ", "   "}

BlankInputs ==
    { <<"HELLO", 16>>, <<"AB", 10>>, <<"STAMP", 28>>, <<"", 16>>, <<"   ", 28>> }

BlankLines ==
    { [text |-> t[1], fontSize |-> Num(t[2]), xPosition |-> 0, yPosition |-> 0,
       curved |-> FALSE, curvature |-> "top"] : t \in BlankInputs }

InitBlank ==
    /\ shape \in Shapes
    /\ lines \in SeqsUpTo(BlankLines, MaxLines)
    /\ prev = lines
    /\ op = "init"
    /\ idx = 0
    /\ total = 0
    /\ flag = FALSE
    /\ zone = NoZone
    /\ deflt = NoLine
    /\ InitAux

NextBlank == op = "init" /\ CallDistributeLines

SpecBlank == InitBlank /\ [][NextBlank]_vars

\* C18: lines whose text is empty or whitespace-only are skipped by layout:
\* the yPositions distributeLines assigns to the non-empty lines are the same
\* whether or not empty or whitespace-only lines are present in the input.
C18_BlankLinesSkipped ==
    op = "distributeLines" =>
        LET hasText(l) == l["text"] \notin BlankTexts
            placed == SelectSeq(lines, hasText)
            alone == distributeLines(SelectSeq(prev, hasText), shape)
        IN  /\ Len(placed) = Len(alone)
            /\ \A i \in 1 .. Len(placed) :
                  placed[i]["yPosition"] = alone[i]["yPosition"]

---------------------------------------------------------------------------
(* Specification of the planners' effect on whole lines: up to MaxLines    *)
(* lines with all the fields of a StampTextLine                            *)

\* The fields of a StampTextLine that no planner writes.
StyleFields ==
    {"text", "fontSize", "fontFamily", "bold", "italic", "alignment", "letterSpacing"}

\* Whole lines, as <<text, fontSize, fontFamily, bold, italic, alignment,
\* letterSpacing, xPosition, yPosition, curved>>; the second has a curvature,
\* the others have none.
WholeInputs ==
    { <<"HELLO", 16, "Arial", TRUE, FALSE, "center", 0, 0, 0, FALSE>>,
      <<"STAMP", 28, "Georgia", FALSE, TRUE, "left", 2, 120, -99, TRUE>>,
      <<"", 12, "Verdana", FALSE, FALSE, "right", 1, -99, 150, FALSE>> }

WholeLines ==
    { LET line == [text |-> t[1], fontSize |-> Num(t[2]), fontFamily |-> t[3],
                   bold |-> t[4], italic |-> t[5], alignment |-> t[6],
                   letterSpacing |-> Num(t[7]), xPosition |-> Num(t[8]),
                   yPosition |-> Num(t[9]), curved |-> t[10]]
      IN  IF t[10] THEN With(line, "curvature", "bottom") ELSE line : t \in WholeInputs }

InitWhole ==
    /\ shape \in Shapes
    /\ lines \in SeqsUpTo(WholeLines, MaxLines)
    /\ prev = lines
    /\ op = "init"
    /\ idx = 0
    /\ total = 0
    /\ flag = FALSE
    /\ zone = NoZone
    /\ deflt = NoLine
    /\ InitAux

\* Each behaviour applies one planner to the lines drawn by InitWhole.
NextWhole ==
    \/ op = "init" /\ CallDistributeLines
    \/ \E i \in 1 .. Len(lines) : op = "init" /\ CallEnforceSafeZone(i)

SpecWhole == InitWhole /\ [][NextWhole]_vars

\* C19: distributeLines and enforceSafeZone are pure: they never modify
\* their input lines; in the line it returns enforceSafeZone changes at most
\* xPosition and yPosition; in the lines it returns distributeLines changes
\* at most yPosition, and curved and curvature only when the shape is circle
\* and there is more than one line; text, fontSize, fontFamily, bold, italic,
\* alignment and letterSpacing (and xPosition for distributeLines) are
\* carried over unchanged.
C19_PlannersPure ==
    LET same(a, b, f) ==
            (f \in DOMAIN a <=> f \in DOMAIN b) /\ (f \in DOMAIN a => a[f] = b[f])
        kept(a, b, written) ==
            /\ \A f \in (DOMAIN a \cup DOMAIN b) \ written : same(a, b, f)
            /\ \A f \in StyleFields : f \in DOMAIN b /\ same(a, b, f)
    IN  /\ op = "enforceSafeZone" =>
              /\ arg = prev[idx + 1]
              /\ \A i \in 1 .. Len(prev) : i # idx + 1 => lines[i] = prev[i]
              /\ kept(prev[idx + 1], lines[idx + 1], {"xPosition", "yPosition"})
        /\ op = "distributeLines" =>
              /\ arg = prev
              /\ Len(lines) = Len(prev)
              /\ \A i \in 1 .. Len(prev) :
                    kept(prev[i], lines[i],
                         IF shape = "circle" /\ Len(prev) > 1
                         THEN {"yPosition", "curved", "curvature"}
                         ELSE {"yPosition"})

\* C19 witness: on a circle a line beyond the frame has been pulled in by
\* enforceSafeZone: the returned line has another position, the argument
\* still has its own.
C19_Witness ==
    /\ op = "enforceSafeZone"
    /\ shape = "circle"
    /\ arg["xPosition"] = Num(120)
    /\ lines[idx + 1]["xPosition"] < Num(120)
    /\ lines[idx + 1]["yPosition"] > Num(-99)
    /\ lines[idx + 1]["fontFamily"] = "Georgia"

---------------------------------------------------------------------------
(* The canvas curved-text routine: TextPositioningService.renderCurvedText *)
(* and the renderCurvedText helper of the useStampDesigner hook            *)

\* Most characters in a curved text.
MaxChars == 3

\* Math.PI as a Number.
MathPI == 51472

\* CanvasRenderingContext2D: the current transform is the sequence of the
\* operations applied to the identity; save pushes the current state,
\* restore pops it (and does nothing when no state is saved).
Save(c) ==
    [c EXCEPT !.stack = Append(c.stack, c.transform), !.saves = c.saves + 1]

Restore(c) ==
    IF Len(c.stack) = 0 THEN [c EXCEPT !.restores = c.restores + 1]
    ELSE [c EXCEPT !.transform = c.stack[Len(c.stack)],
                   !.stack = SubSeq(c.stack, 1, Len(c.stack) - 1),
                   !.restores = c.restores + 1]

Translate(c, x, y) ==
    [c EXCEPT !.transform = Append(c.transform, [f |-> "translate", a |-> x, b |-> y])]

Rotate(c, angle) ==
    [c EXCEPT !.transform = Append(c.transform, [f |-> "rotate", a |-> angle, b |-> 0])]

\* ctx.fillText(text[i], 0, 0): character i is drawn under the current
\* transform.
FillText(c, i) ==
    [c EXCEPT !.drawn = Append(c.drawn, [char |-> i, transform |-> c.transform])]

\* const isBottomText: the service reads the curvature, the hook the sign of
\* yPosition.
IsBottomText(variant, line) ==
    IF variant = "service"
    THEN "curvature" \in DOMAIN line /\ line["curvature"] = "bottom"
    ELSE OrZero(line, "yPosition") > 0

\* The angle of the first character.
StartAngle(variant, bottom) ==
    IF variant = "service"
    THEN IF bottom THEN FDiv(MathPI, Num(4)) ELSE FDiv(-MathPI, Num(4))
    ELSE FDiv(-FMul(MathPI, Dec(12, 10)), Num(2))

\* const arcLength
ArcLength(variant, bottom) ==
    IF variant = "service"
    THEN LET endAngle == IF bottom THEN FDiv(FMul(MathPI, Num(7)), Num(4))
                         ELSE FDiv(MathPI, Num(4))
         IN  Abs(FSub(endAngle, StartAngle(variant, bottom)))
    ELSE FMul(MathPI, Dec(12, 10))

\* const charAngle (for a non-empty text)
CharAngle(variant, bottom, textLength) ==
    FDiv(ArcLength(variant, bottom), Num(textLength))

\* Mutant of AfterCharacter: the character's saved state is not restored.
AfterCharacter_NoRestore(c) == c

\* The ctx.restore() that ends the loop body.
AfterCharacter(c) == Restore(c)

\* The variables the curved-text routine leaves alone.
designVars == <<shape, lines, prev, idx, total, flag, zone, deflt, ret, arg, stampRadius, hook>>

\* The routine moves from position `from` to position `to`.
Goto(from, to) ==
    /\ render.pc = from
    /\ render' = [render EXCEPT !.pc = to]

\* renderCurvedText(ctx, text, centerX, centerY, radius, line) of the service,
\* renderCurvedText(ctx, line, centerX, centerY, radius) of the hook: the
\* call, with the locals the routine computes before it draws.
RenderEnter(variant, centerX, centerY, radius) ==
    /\ render.pc = "idle"
    /\ Len(lines) = 1
    /\ LET line == lines[1]
           text == TextOf(line)
           bottom == IsBottomText(variant, line)
       IN  render' = [pc |-> "check", variant |-> variant, text |-> text,
                      textLength |-> Len(text), isBottomText |-> bottom,
                      centerX |-> centerX, centerY |-> centerY, radius |-> radius,
                      i |-> 0,
                      currentAngle |-> StartAngle(variant, bottom),
                      charAngle |-> IF Len(text) > 0
                                    THEN CharAngle(variant, bottom, Len(text)) ELSE 0,
                      entry |-> ctx]
    /\ op' = "renderCurvedText"
    /\ UNCHANGED <<ctx, designVars>>

\* if (!text || text.length === 0) return;
RenderCheckText ==
    /\ render.pc = "check"
    /\ IF render.text = "" THEN Goto("check", "done") ELSE Goto("check", "save")
    /\ UNCHANGED <<ctx, op, designVars>>

\* ctx.save();
RenderSave ==
    /\ Goto("save", "translate")
    /\ ctx' = Save(ctx)
    /\ UNCHANGED <<op, designVars>>

\* ctx.translate(centerX, centerY);
RenderTranslate ==
    /\ Goto("translate", "flip")
    /\ ctx' = Translate(ctx, render.centerX, render.centerY)
    /\ UNCHANGED <<op, designVars>>

\* if (isBottomText) { ctx.rotate(Math.PI); }
RenderFlip ==
    /\ Goto("flip", "loop")
    /\ ctx' = IF render.isBottomText THEN Rotate(ctx, MathPI) ELSE ctx
    /\ UNCHANGED <<op, designVars>>

\* for (...; i < textLength; ...)
RenderLoop ==
    /\ render.pc = "loop"
    /\ IF render.i < render.textLength
       THEN Goto("loop", "charSave") ELSE Goto("loop", "restore")
    /\ UNCHANGED <<ctx, op, designVars>>

\* ctx.save();  (per character)
RenderCharSave ==
    /\ Goto("charSave", "charRotate")
    /\ ctx' = Save(ctx)
    /\ UNCHANGED <<op, designVars>>

\* ctx.rotate(currentAngle);
RenderCharRotate ==
    /\ Goto("charRotate", "charTranslate")
    /\ ctx' = Rotate(ctx, render.currentAngle)
    /\ UNCHANGED <<op, designVars>>

\* ctx.translate(0, -radius);
RenderCharTranslate ==
    /\ Goto("charTranslate", "charFlip")
    /\ ctx' = Translate(ctx, 0, -render.radius)
    /\ UNCHANGED <<op, designVars>>

\* if (isBottomText) { ctx.rotate(Math.PI); }  (per character)
RenderCharFlip ==
    /\ Goto("charFlip", "fillText")
    /\ ctx' = IF render.isBottomText THEN Rotate(ctx, MathPI) ELSE ctx
    /\ UNCHANGED <<op, designVars>>

\* ctx.fillText(text[i], 0, 0);
RenderFillText ==
    /\ Goto("fillText", "charRestore")
    /\ ctx' = FillText(ctx, render.i)
    /\ UNCHANGED <<op, designVars>>

\* ctx.restore(); currentAngle += charAngle; i++
RenderCharRestore ==
    /\ render.pc = "charRestore"
    /\ ctx' = AfterCharacter(ctx)
    /\ render' = [render EXCEPT !.pc = "loop", !.i = render.i + 1,
                                !.currentAngle = FAdd(render.currentAngle, render.charAngle)]
    /\ UNCHANGED <<op, designVars>>

\* ctx.restore();  (the last statement)
RenderRestore ==
    /\ Goto("restore", "done")
    /\ ctx' = Restore(ctx)
    /\ UNCHANGED <<op, designVars>>

\* The texts drawn along an arc.
CurvedTexts == {t \in {"", "A", "AB", "ABC", "ABCD", "ABCDE"} : Len(t) <= MaxChars}

\* Curved lines: any curvature or none, above, at and below the centre.
CurvedLines ==
    LET base(t, y) == [text |-> t, fontSize |-> Num(14), xPosition |-> 0,
                       yPosition |-> y, curved |-> TRUE]
    IN  {With(base(t, y), "curvature", c) :
            t \in CurvedTexts, y \in {Num(-70), 0, Num(70)}, c \in {"top", "bottom"}}
        \cup {base(t, y) : t \in CurvedTexts, y \in {Num(-70), 0, Num(70)}}

\* The context as the caller hands it over: untouched, or with a transform
\* of the caller's and a state the caller saved.
EntryContexts ==
    { NoCtx,
      [NoCtx EXCEPT !.transform = << [f |-> "translate", a |-> Num(10), b |-> Num(10)] >>,
                    !.stack = << <<>> >>, !.saves = 1] }

InitCanvas ==
    /\ shape = "circle"
    /\ \E l \in CurvedLines : lines = <<l>>
    /\ prev = lines
    /\ op = "init"
    /\ idx = 0
    /\ total = 0
    /\ flag = FALSE
    /\ zone = NoZone
    /\ deflt = NoLine
    /\ ret = 0
    /\ arg = <<>>
    /\ ctx \in EntryContexts
    /\ render = Idle
    /\ stampRadius = Num(100)
    /\ hook = NoHook

NextCanvas ==
    \/ \E variant \in {"service", "hook"} :
          RenderEnter(variant, Num(100), Num(100),
                      getCurvedTextRadius(lines[1], stampRadius))
    \/ RenderCheckText
    \/ RenderSave
    \/ RenderTranslate
    \/ RenderFlip
    \/ RenderLoop
    \/ RenderCharSave
    \/ RenderCharRotate
    \/ RenderCharTranslate
    \/ RenderCharFlip
    \/ RenderFillText
    \/ RenderCharRestore
    \/ RenderRestore

SpecCanvas == InitCanvas /\ [][NextCanvas]_vars

\* C20: for any text (including empty text) and either curvature, the canvas
\* curved-text routine leaves the saved-state stack at the depth it had on
\* entry: every save is matched by exactly one restore (none falls on an
\* empty stack), each character's rotate/translate is undone before the next
\* character is drawn, and the outer translate and the 180-degree rotation
\* for bottom text are undone before the routine returns.
C20_RenderRestoresContext ==
    LET entry == render.entry
        outer ==
            Append(entry.transform,
                   [f |-> "translate", a |-> render.centerX, b |-> render.centerY])
                \o (IF render.isBottomText
                    THEN << [f |-> "rotate", a |-> MathPI, b |-> 0] >> ELSE <<>>)
        atCharacter(angle) ==
            outer \o << [f |-> "rotate", a |-> angle, b |-> 0],
                        [f |-> "translate", a |-> 0, b |-> -render.radius] >>
                  \o (IF render.isBottomText
                      THEN << [f |-> "rotate", a |-> MathPI, b |-> 0] >> ELSE <<>>)
    IN  /\ render.pc = "done" =>
              /\ Len(ctx.stack) = Len(entry.stack)
              /\ ctx.stack = entry.stack
              /\ ctx.transform = entry.transform
              /\ ctx.saves - entry.saves = ctx.restores - entry.restores
              /\ Len(ctx.drawn) = render.textLength
        /\ render.pc \in {"loop", "charSave", "restore"} =>
              /\ ctx.transform = outer
              /\ ctx.stack = Append(entry.stack, entry.transform)
        /\ render.pc = "fillText" =>
              /\ ctx.transform = atCharacter(render.currentAngle)
              /\ ctx.stack = Append(Append(entry.stack, entry.transform), outer)
        /\ render.pc \notin {"idle", "check"} =>
              ctx.restores - entry.restores <= ctx.saves - entry.saves

\* C20 witness: a bottom text of MaxChars characters has been drawn on a
\* context that came with a transform and a saved state of the caller's, and
\* the routine has returned.
C20_Witness ==
    /\ render.pc = "done"
    /\ render.isBottomText
    /\ render.textLength = MaxChars
    /\ Len(ctx.drawn) = MaxChars
    /\ Len(render.entry.stack) = 1
    /\ ctx.saves = render.entry.saves + MaxChars + 1

\* The placement angle of the k-th character drawn (k from 1): the angle of
\* the ctx.rotate(currentAngle) that precedes its ctx.fillText.
PlacementAngle(k) ==
    LET t == ctx.drawn[k].transform
        at == Len(render.entry.transform) + (IF render.isBottomText THEN 3 ELSE 2)
    IN  t[at].a

\* C21: the canvas curved-text routine places the n characters of a line at
\* evenly spaced angles with step = (total sweep)/n over a total sweep of
\* 0.8*pi that is symmetric about the vertical axis: the placement angle of
\* character i is the negation of the placement angle of character n-1-i.
C21_SymmetricSweep ==
    (render.pc = "done" /\ render.textLength >= 1) =>
        LET n == render.textLength
            sweep == FMul(MathPI, Dec(8, 10))
        IN  /\ ArcLength(render.variant, render.isBottomText) = sweep
            /\ render.charAngle = FDiv(sweep, Num(n))
            /\ \A k \in 1 .. n :
                  Abs(PlacementAngle(k) + PlacementAngle(n + 1 - k))
                      <= 2 * n * Ulp(MathPI)

---------------------------------------------------------------------------
(* distributeLines as the repair of overlaps *)

\* Most lines in a list handed to the repair.
MaxFit == 3

\* Font sizes: from the editor's smallest to sizes that fill the stamp with
\* two or three lines.
FitFonts == {10, 16, 25, 50, 75}

\* The lists of 2 .. MaxFit lines: any font size per line, one text for all
\* lines, all at xPosition 0 or every second line moved to the right.
FitLines ==
    { [i \in 1 .. n |->
          [text |-> t, fontSize |-> Num(f[i]),
           xPosition |-> IF i % 2 = 0 THEN x ELSE 0, yPosition |-> 0,
           curved |-> FALSE, curvature |-> "top"]] :
          n \in 2 .. MaxFit, f \in [1 .. MaxFit -> FitFonts],
          t \in {"A", "ABCDE"}, x \in {0, Num(50)} }

InitFit ==
    /\ shape \in Shapes
    /\ lines \in FitLines
    /\ prev = lines
    /\ op = "init"
    /\ idx = 0
    /\ total = 0
    /\ flag = FALSE
    /\ zone = NoZone
    /\ deflt = NoLine
    /\ InitAux

\* detectLineCollisions(distributeLines(lines, shape), shape)
NextFit ==
    \/ op = "init" /\ CallDistributeLines
    \/ op = "distributeLines" /\ CallDetectLineCollisions

SpecFit == InitFit /\ [][NextFit]_vars

\* C22: distributeLines repairs overlaps: for every shape and every list of
\* at least 2 lines with positive font sizes whose total text height
\* sum(fontSize*1.2) does not exceed the available height (160 for circle,
\* 180 otherwise), detectLineCollisions(distributeLines(lines, shape), shape)
\* is false, whatever the lines' texts and xPositions.
C22_DistributeRepairsOverlaps ==
    (/\ op = "detectLineCollisions"
     /\ Len(lines) >= 2
     /\ TotalTextHeight(lines, Len(lines)) <= AvailableHeight(shape))
        => flag = FALSE

\* C22 witness: three lines that fill the available height to the last unit
\* (no spacing left), all at the same xPosition with a text of five
\* characters, were distributed and found free of collisions.
C22_Witness ==
    /\ op = "detectLineCollisions"
    /\ Len(lines) = 3
    /\ TotalTextHeight(lines, 3) <= AvailableHeight(shape)
    /\ AvailableHeight(shape) - TotalTextHeight(lines, 3) < Num(1)
    /\ \A i \in 1 .. 3 : lines[i]["xPosition"] = 0 /\ lines[i]["text"] = "ABCDE"
    /\ flag = FALSE

---------------------------------------------------------------------------
(* The designer hooks: useStampDesigner ("classic", the hook of the
   simplified designer) and useStampDesignerEnhanced ("enhanced").

   hook.present is the design held in React state (history.present of the
   enhanced hook, design of the classic one), hook.past and hook.future the
   history of the enhanced hook.  hook.seen is what the callbacks created by
   the last render closed over; a state update goes to the state at once
   (updaters run in the order queued) and reaches hook.seen with the next
   render.  Every line object carries its identity in "ref": an assignment
   to a field of a line object shows in every design that holds the object. *)

\* Most lines a product takes (Product.lines).
MaxProductLines == 5
\* Most calls of hook functions in a behaviour.
MaxOps == 4

Range(f) == {f[i] : i \in DOMAIN f}

SetMax(S) == CHOOSE m \in S : \A x \in S : x <= m

\* const defaultLine: StampTextLine = {...}; isDragging is a field of the
\* enhanced hook's default line only.
defaultLine(variant) ==
    LET line == [text |-> "", fontSize |-> Num(16), curved |-> FALSE, curvature |-> "top",
                 xPosition |-> 0, yPosition |-> 0, ref |-> 0]
    IN  IF variant = "enhanced" THEN With(line, "isDragging", FALSE) ELSE line

\* The designs of a hook: in state, in the history, and seen by the callbacks.
AllDesigns(h) == Range(h.past) \cup {h.present} \cup Range(h.future) \cup {h.seen.present}

\* The identities of the line objects a hook holds.
RefsOf(h) == UNION { {d.lines[i]["ref"] : i \in 1 .. Len(d.lines)} : d \in AllDesigns(h) }

\* An identity no line object of the hook has; the k-th new object of a call
\* gets Fresh(h) + k - 1.
Fresh(h) == 1 + SetMax(RefsOf(h) \cup {0})

\* what the callbacks of a render close over
Snapshot(h) ==
    [present |-> h.present, canUndo |-> Len(h.past) > 0, canRedo |-> Len(h.future) > 0,
     dragState |-> h.dragState, isDragging |-> h.isDragging,
     activeLineIndex |-> h.activeLineIndex, currentStep |-> h.currentStep]

\* const calculateSafePosition = (lineIndex, totalLines) => ...
calculateSafePosition(lineIndex, totalLines) ==
    IF totalLines = 1 THEN 0
    ELSE IF totalLines = 2 THEN (IF lineIndex = 0 THEN Num(-25) ELSE Num(25))
    ELSE IF totalLines = 3 THEN <<Num(-30), 0, Num(30)>>[lineIndex + 1]
    ELSE IF totalLines = 4 THEN <<Num(-35), Num(-15), Num(15), Num(35)>>[lineIndex + 1]
    ELSE FAdd(Num(-35), FMul(Num(lineIndex), FDiv(Num(70), Num(totalLines - 1))))

\* const redistributeLines = (lines) => lines.map((line, index) => ({...line,
\* yPosition: calculateSafePosition(index, lines.length)})); the new objects
\* get the identities from `fresh` on.
redistributeLines(ls, fresh) ==
    [i \in 1 .. Len(ls) |->
        [ls[i] EXCEPT !["yPosition"] = calculateSafePosition(i - 1, Len(ls)),
                      !["ref"] = fresh + i - 1]]

\* lines.filter((_, i) => i !== index)
FilterOut(ls, index) ==
    IF index < 0 \/ index >= Len(ls) THEN ls
    ELSE SubSeq(ls, 1, index) \o SubSeq(ls, index + 2, Len(ls))

\* const updateHistory = (updatedDesign) => setHistory(prev => ({past:
\* [...prev.past, prev.present], present: updatedDesign, future: []}))
updateHistory(h, updatedDesign) ==
    [h EXCEPT !.past = Append(h.past, h.present), !.present = updatedDesign,
              !.future = <<>>]

\* addLine of useStampDesigner: the limit is tested on the design the
\* callback closed over, the line is appended by an updater of the state.
addLineClassic(h) ==
    IF Len(h.seen.present.lines) >= h.productLines THEN h
    ELSE LET newLine == [defaultLine("classic") EXCEPT !["ref"] = Fresh(h)]
             newLines == Append(h.present.lines, newLine)
         IN  [h EXCEPT !.present.lines = redistributeLines(newLines, Fresh(h) + 1)]

\* addLine of useStampDesignerEnhanced: limit and new design both come from
\* the design the callback closed over.
addLineEnhanced(h) ==
    IF Len(h.seen.present.lines) < h.productLines
    THEN LET newLine == [defaultLine("enhanced") EXCEPT !["ref"] = Fresh(h)]
         IN  updateHistory(h, [h.seen.present EXCEPT
                                  !.lines = Append(h.seen.present.lines, newLine)])
    ELSE h

addLine(h) == IF h.variant = "classic" THEN addLineClassic(h) ELSE addLineEnhanced(h)

\* removeLine of useStampDesigner: an updater of the state.
removeLineClassic(h, index) ==
    IF Len(h.present.lines) <= 1 THEN h
    ELSE [h EXCEPT !.present.lines =
                       redistributeLines(FilterOut(h.present.lines, index), Fresh(h))]

\* removeLine of useStampDesignerEnhanced.
removeLineEnhanced(h, index) ==
    updateHistory(h, [h.seen.present EXCEPT
                         !.lines = FilterOut(h.seen.present.lines, index)])

removeLine(h, index) ==
    IF h.variant = "classic" THEN removeLineClassic(h, index)
    ELSE removeLineEnhanced(h, index)

\* Math.max(-100, Math.min(100, x))
Constrain(x) == Max(Num(-100), Min(Num(100), x))

\* newLines[index] = {...newLines[index], xPosition: x, yPosition: y}
\* (index is 0-based and in range); the new object gets the identity `fresh`.
MoveLine(ls, index, x, y, fresh) ==
    [ls EXCEPT ![index + 1] =
        [@ EXCEPT !["xPosition"] = x, !["yPosition"] = y, !["ref"] = fresh]]

\* updateTextPosition of useStampDesigner: an updater of the state, which
\* ignores an index out of range and stores x and y as given.
updateTextPositionClassic(h, index, x, y) ==
    IF index < 0 \/ index >= Len(h.present.lines) THEN h
    ELSE [h EXCEPT !.present.lines = MoveLine(h.present.lines, index, x, y, Fresh(h))]

\* updateTextPosition of useStampDesignerEnhanced (index in range): the
\* design the callback closed over with the line moved to the constrained
\* position becomes history.present; the history is not extended.
updateTextPositionEnhanced(h, index, x, y) ==
    [h EXCEPT !.present =
        [h.seen.present EXCEPT
            !.lines = MoveLine(h.seen.present.lines, index,
                               Constrain(x), Constrain(y), Fresh(h))]]

updateTextPosition(h, index, x, y) ==
    IF h.variant = "classic" THEN updateTextPositionClassic(h, index, x, y)
    ELSE updateTextPositionEnhanced(h, index, x, y)

\* updateLogoPosition: setDesign(prev => ({...prev, logoX: x, logoY: y})) in
\* useStampDesigner; constrained and based on the design closed over in
\* useStampDesignerEnhanced.
updateLogoPosition(h, x, y) ==
    IF h.variant = "classic"
    THEN [h EXCEPT !.present.logoX = x, !.present.logoY = y]
    ELSE [h EXCEPT !.present =
             [h.seen.present EXCEPT !.logoX = Constrain(x), !.logoY = Constrain(y)]]

\* line.isDragging = value(i), assigned to the line objects of a design: the
\* lines of d with the field set where d holds one of the objects in `refs`
\* (refs[i] is the identity of the i-th object assigned, value[i] its flag).
AssignDragging(d, refs, value) ==
    [d EXCEPT !.lines =
        [i \in 1 .. Len(d.lines) |->
            IF \E k \in 1 .. Len(refs) : refs[k] = d.lines[i]["ref"]
            THEN LET k == CHOOSE k \in 1 .. Len(refs) : refs[k] = d.lines[i]["ref"]
                 IN  With(d.lines[i], "isDragging", value[k])
            ELSE d.lines[i]]]

\* newLines.forEach((line, i) => { line.isDragging = ... }) on the lines of
\* the design closed over: the objects are changed in place, in the state,
\* in the history and in the closure alike.
ForEachSetDragging(h, value) ==
    LET ls == h.seen.present.lines
        refs == [i \in 1 .. Len(ls) |-> ls[i]["ref"]]
    IN  [h EXCEPT !.past = [i \in 1 .. Len(h.past) |-> AssignDragging(h.past[i], refs, value)],
                  !.present = AssignDragging(h.present, refs, value),
                  !.future = [i \in 1 .. Len(h.future) |-> AssignDragging(h.future[i], refs, value)],
                  !.seen.present = AssignDragging(h.seen.present, refs, value)]

\* startTextDrag(index)
startTextDrag(h, index) ==
    IF h.variant = "classic"
    THEN [h EXCEPT !.dragState = [isDragging |-> TRUE, type |-> "text", lineIndex |-> index]]
    ELSE LET n == Len(h.seen.present.lines)
             marked == ForEachSetDragging(h, [i \in 1 .. n |-> i - 1 = index])
         IN  [marked EXCEPT !.present = [marked.seen.present EXCEPT !.logoDragging = FALSE]]

\* startLogoDrag()
startLogoDrag(h) ==
    IF h.variant = "classic"
    THEN [h EXCEPT !.dragState = [isDragging |-> TRUE, type |-> "logo", lineIndex |-> -1]]
    ELSE LET n == Len(h.seen.present.lines)
             marked == ForEachSetDragging(h, [i \in 1 .. n |-> FALSE])
         IN  [marked EXCEPT !.present = [marked.seen.present EXCEPT !.logoDragging = TRUE]]

\* stopDragging(): the enhanced hook hands the design it closed over, with
\* the flags cleared, to updateHistory.
stopDragging(h) ==
    IF h.variant = "classic"
    THEN [h EXCEPT !.dragState = [isDragging |-> FALSE, type |-> "none", lineIndex |-> -1]]
    ELSE LET n == Len(h.seen.present.lines)
             marked == ForEachSetDragging(h, [i \in 1 .. n |-> FALSE])
         IN  updateHistory(marked, [marked.seen.present EXCEPT !.logoDragging = FALSE])

\* The preview rectangle handed to handleDrag (left = top = 0).
RectSize == 200

\* ((clientX - rect.left) / rect.width * 2 - 1) * 100  (useStampDesigner)
RelativeClassic(client) ==
    FMul(FSub(FMul(FDiv(Num(client), Num(RectSize)), Num(2)), Num(1)), Num(100))

\* ((clientX - centerX) / (previewRect.width / 2)) * 100  (enhanced), with
\* centerX = previewRect.left + previewRect.width / 2
RelativeEnhanced(client) ==
    LET center == FAdd(0, FDiv(Num(RectSize), Num(2)))
    IN  FMul(FDiv(FSub(Num(client), center), FDiv(Num(RectSize), Num(2))), Num(100))

\* handleDrag of useStampDesigner with a mouse event at (clientX, clientY).
handleDragClassic(h, clientX, clientY) ==
    IF ~h.seen.dragState.isDragging THEN h
    ELSE IF clientX = 0 /\ clientY = 0 THEN h
    ELSE IF h.seen.dragState.type = "text"
    THEN updateTextPositionClassic(h, h.seen.dragState.lineIndex,
                                   RelativeClassic(clientX), RelativeClassic(clientY))
    ELSE IF h.seen.dragState.type = "logo"
    THEN updateLogoPosition(h, RelativeClassic(clientX), RelativeClassic(clientY))
    ELSE h

\* design.lines.findIndex(line => line.isDragging), 0-based, -1 if none
DraggingLineIndex(ls) ==
    IF \E i \in 1 .. Len(ls) : ls[i]["isDragging"]
    THEN (CHOOSE i \in 1 .. Len(ls) :
              /\ ls[i]["isDragging"]
              /\ \A j \in 1 .. i - 1 : ~ls[j]["isDragging"]) - 1
    ELSE -1

\* handleDrag of useStampDesignerEnhanced with a mouse event at (clientX,
\* clientY): the relative position is stored as computed.
handleDragEnhanced(h, clientX, clientY) ==
    LET design == h.seen.present
        draggingLineIndex == DraggingLineIndex(design.lines)
    IN  IF draggingLineIndex # -1
        THEN [h EXCEPT !.present =
                 [design EXCEPT !.lines =
                     MoveLine(design.lines, draggingLineIndex, RelativeEnhanced(clientX),
                              RelativeEnhanced(clientY), Fresh(h))]]
        ELSE IF design.logoDragging /\ design.includeLogo
        THEN [h EXCEPT !.present =
                 [design EXCEPT !.logoX = RelativeEnhanced(clientX),
                                !.logoY = RelativeEnhanced(clientY)]]
        ELSE h

handleDrag(h, clientX, clientY) ==
    IF h.variant = "classic" THEN handleDragClassic(h, clientX, clientY)
    ELSE handleDragEnhanced(h, clientX, clientY)

\* prev.past[prev.past.length - 1] of an empty past, prev.future[0] of an
\* empty future: undefined; the next render throws on design.lines.
UndefinedDesign ==
    [lines |-> <<>>, shape |-> "undefined", logoX |-> 0, logoY |-> 0,
     includeLogo |-> FALSE, logoDragging |-> FALSE]

\* array[array.length - 1]
LastOf(designs) == IF Len(designs) = 0 THEN UndefinedDesign ELSE designs[Len(designs)]

\* array[0]
FirstOf(designs) == IF Len(designs) = 0 THEN UndefinedDesign ELSE designs[1]

\* array.slice(0, -1)
ButLast(designs) == IF Len(designs) = 0 THEN <<>> ELSE SubSeq(designs, 1, Len(designs) - 1)

\* array.slice(1)
Rest(designs) == IF Len(designs) = 0 THEN <<>> ELSE Tail(designs)

\* Mutant of undo: the design left is not put on the future.
undo_ForgetPresent(h) ==
    IF ~h.seen.canUndo THEN h
    ELSE [h EXCEPT !.past = ButLast(h.past), !.present = LastOf(h.past)]

\* undo of useStampDesignerEnhanced: canUndo is the one of the last render,
\* the updater works on the state.
undo(h) ==
    IF ~h.seen.canUndo THEN h
    ELSE [h EXCEPT !.past = ButLast(h.past),
                   !.present = LastOf(h.past),
                   !.future = <<h.present>> \o h.future]

\* redo of useStampDesignerEnhanced.
redo(h) ==
    IF ~h.seen.canRedo THEN h
    ELSE [h EXCEPT !.past = Append(h.past, h.present),
                   !.present = FirstOf(h.future),
                   !.future = Rest(h.future)]

\* The history of a hook.
History(h) == [past |-> h.past, present |-> h.present, future |-> h.future]

\* The hook after its mount effect for a product of productLines lines:
\* useStampDesigner starts with min(2, product.lines) default lines at
\* yPosition -30 and 30, useStampDesignerEnhanced with product.lines default
\* lines.
Mounted(variant, productLines, s) ==
    LET n == IF variant = "classic" THEN Min(2, productLines) ELSE productLines
        initialLines ==
            [i \in 1 .. n |->
                [defaultLine(variant) EXCEPT
                    !["yPosition"] = IF variant = "classic"
                                     THEN (IF i = 1 THEN Num(-30) ELSE Num(30)) ELSE 0,
                    !["ref"] = i]]
        h == [variant |-> variant, productLines |-> productLines,
              past |-> <<>>, future |-> <<>>,
              present |-> [lines |-> initialLines, shape |-> s, logoX |-> 0, logoY |-> 0,
                           includeLogo |-> FALSE, logoDragging |-> FALSE],
              dragState |-> [isDragging |-> FALSE, type |-> "none", lineIndex |-> -1],
              isDragging |-> FALSE, activeLineIndex |-> -1, currentStep |-> "structure",
              calls |-> <<>>, was |-> <<>>]
    IN  h @@ [seen |-> Snapshot(h)]

\* A call of a hook function that leaves the hook as h2: hook.calls records
\* the call and whether it came from the callbacks of an up-to-date render,
\* hook.was the history the call found.
HookCall(name, index, h2) ==
    /\ hook.variant # "none"
    /\ hook.seen.present # UndefinedDesign
    /\ Len(hook.calls) < MaxOps
    /\ hook' = [h2 EXCEPT
                   !.calls = Append(hook.calls,
                                    [op |-> name, index |-> index,
                                     rendered |-> hook.seen = Snapshot(hook)]),
                   !.was = Append(hook.was, History(hook))]
    /\ op' = name
    /\ UNCHANGED <<shape, lines, prev, idx, total, flag, zone, deflt, ret, arg, ctx, render,
                   stampRadius>>

\* React renders the component: the callbacks now close over the state.
Render ==
    /\ hook.variant # "none"
    /\ hook.seen # Snapshot(hook)
    /\ hook' = [hook EXCEPT !.seen = Snapshot(hook)]
    /\ UNCHANGED <<shape, lines, prev, op, idx, total, flag, zone, deflt, ret, arg, ctx,
                   render, stampRadius>>

AddLine == HookCall("addLine", -1, addLine(hook))

RemoveLine(index) == HookCall("removeLine", index, removeLine(hook, index))

UpdateTextPosition(index, x, y) ==
    /\ index \in 0 .. Len(hook.seen.present.lines) - 1
    /\ HookCall("updateTextPosition", index, updateTextPosition(hook, index, x, y))

UpdateLogoPosition(x, y) == HookCall("updateLogoPosition", -1, updateLogoPosition(hook, x, y))

StartTextDrag(index) ==
    /\ index \in 0 .. Len(hook.seen.present.lines) - 1
    /\ HookCall("startTextDrag", index, startTextDrag(hook, index))

StartLogoDrag == HookCall("startLogoDrag", -1, startLogoDrag(hook))

StopDragging == HookCall("stopDragging", -1, stopDragging(hook))

HandleDrag(clientX, clientY) == HookCall("handleDrag", -1, handleDrag(hook, clientX, clientY))

Undo == hook.variant = "enhanced" /\ HookCall("undo", -1, undo(hook))

Redo == hook.variant = "enhanced" /\ HookCall("redo", -1, redo(hook))

\* The variables the hook specifications leave at their initial values.
InitNoDesign ==
    /\ shape = "rectangle"
    /\ lines = <<>>
    /\ prev = <<>>
    /\ op = "init"
    /\ idx = 0
    /\ total = 0
    /\ flag = FALSE
    /\ zone = NoZone
    /\ deflt = NoLine
    /\ ret = 0
    /\ arg = <<>>
    /\ ctx = NoCtx
    /\ render = Idle
    /\ stampRadius = 0

Variants == {"classic", "enhanced"}

---------------------------------------------------------------------------
(* Adding and removing lines *)

\* Positions a line is moved to before a removal.
ScatterCoords == {Num(-60), Num(40)}

InitLineCount ==
    /\ InitNoDesign
    /\ \E variant \in Variants : \E productLines \in 1 .. MaxProductLines :
          hook = Mounted(variant, productLines, "rectangle")

NextLineCount ==
    \/ AddLine
    \/ \E index \in {-1, 0, 1, MaxProductLines} : RemoveLine(index)
    \/ \E y \in ScatterCoords : UpdateTextPosition(0, 0, y)
    \/ Render

SpecLineCount == InitLineCount /\ [][NextLineCount]_vars

\* The last call of a hook function and the design it found.
LastCall == hook.calls[Len(hook.calls)]
LinesBefore == hook.was[Len(hook.was)].present.lines

\* The lines without yPosition and identity.
Unplaced(ls) ==
    [i \in 1 .. Len(ls) |-> [ls[i] EXCEPT !["yPosition"] = 0, !["ref"] = 0]]

\* C23: in both designer hooks, removeLine(index) removes exactly the line at
\* that index and then recomputes the yPositions of all remaining lines by
\* even redistribution, so that right after a removal the remaining lines are
\* evenly spaced regardless of the positions they had before.
C23_RemoveLineRedistributes ==
    (/\ hook.variant # "none"
     /\ Len(hook.calls) > 0
     /\ LastCall.op = "removeLine"
     /\ LastCall.rendered
     /\ Len(LinesBefore) >= 2
     /\ LastCall.index \in 0 .. Len(LinesBefore) - 1)
        => LET ls == hook.present.lines
               n == Len(ls)
           IN  /\ Unplaced(ls) = Unplaced(FilterOut(LinesBefore, LastCall.index))
               /\ \A i \in 1 .. n : ls[i]["yPosition"] = calculateSafePosition(i - 1, n)
               /\ \A i \in 2 .. n - 1 :
                     Abs((ls[i + 1]["yPosition"] - ls[i]["yPosition"])
                            - (ls[i]["yPosition"] - ls[i - 1]["yPosition"]))
                        <= 2 * Ulp(Num(100))

\* C24: for a product with maximum line count M, after any sequence of
\* addLine and removeLine calls on a designer hook (including two addLine
\* calls issued before the component re-renders, so that both read the same
\* line count), design.lines.length never exceeds M.
C24_LineCountBounded ==
    hook.variant # "none" => Len(hook.present.lines) <= hook.productLines

\* C30: in both designer hooks, once a design has at least one line, no
\* sequence of removeLine calls (with any index, in range or not) leaves it
\* with zero lines: removeLine on a one-line design changes nothing.
C30_NeverZeroLines ==
    hook.variant # "none" =>
        /\ Len(hook.present.lines) >= 1
        /\ (/\ Len(hook.calls) > 0
            /\ LastCall.op = "removeLine"
            /\ Len(LinesBefore) = 1) => hook.present.lines = LinesBefore

---------------------------------------------------------------------------
(* Positions written by the hooks *)

\* Positions handed to updateTextPosition and updateLogoPosition.
GivenCoords == {Num(50), Num(120)}

\* Pointer coordinates handed to handleDrag: inside the preview rectangle
\* and right of it.
PointerCoords == {150, 260}

InitPositions ==
    /\ InitNoDesign
    /\ \E variant \in Variants : \E productLines \in 2 .. 3 :
          hook = Mounted(variant, productLines, "rectangle")

NextPositions ==
    \/ \E x \in GivenCoords : UpdateTextPosition(0, x, Num(-50))
    \/ \E y \in GivenCoords : UpdateLogoPosition(Num(-50), y)
    \/ StartTextDrag(0)
    \/ StartLogoDrag
    \/ \E c \in PointerCoords : HandleDrag(c, 150)
    \/ AddLine
    \/ RemoveLine(0)
    \/ Render

SpecPositions == InitPositions /\ [][NextPositions]_vars

InFrame(v) == Num(-100) <= v /\ v <= Num(100)

\* C25: in the designer hooks, after any sequence of updateTextPosition,
\* handleDrag (with the pointer anywhere, also outside the preview
\* rectangle), updateLogoPosition, addLine and removeLine, every line's
\* xPosition and yPosition and the logo's logoX and logoY lie in [-100, 100].
C25_PositionsInFrame ==
    hook.variant # "none" =>
        /\ \A i \in 1 .. Len(hook.present.lines) :
              /\ InFrame(hook.present.lines[i]["xPosition"])
              /\ InFrame(hook.present.lines[i]["yPosition"])
        /\ InFrame(hook.present.logoX)
        /\ InFrame(hook.present.logoY)

---------------------------------------------------------------------------
(* The simplified designer (StampDesignerSimplified) on useStampDesigner *)

\* updateMultipleLines of useStampDesigner: setDesign(cur => ({...cur, lines:
\* updatedLines}))
updateMultipleLinesClassic(h, updatedLines) == [h EXCEPT !.present.lines = updatedLines]

\* enforceTextBoundaries of useStampDesigner: the lines of the design closed
\* over, each constrained to [-100, 100] on both axes, replace the lines.
enforceTextBoundaries(h) ==
    LET ls == h.seen.present.lines
        adjustedLines ==
            [i \in 1 .. Len(ls) |->
                [ls[i] EXCEPT !["xPosition"] = Constrain(OrZero(ls[i], "xPosition")),
                              !["yPosition"] = Constrain(OrZero(ls[i], "yPosition")),
                              !["ref"] = Fresh(h) + i - 1]]
    IN  updateMultipleLinesClassic(h, adjustedLines)

\* handlePreviewClick with a mouse event at (clientX, clientY) over the
\* preview rectangle (left = top = 0).
handlePreviewClick(h, clientX, clientY) ==
    LET relativeX == RelativeClassic(clientX)
        relativeY == RelativeClassic(clientY)
    IN  IF h.seen.activeLineIndex # -1
        THEN startTextDrag(updateTextPosition(h, h.seen.activeLineIndex, relativeX, relativeY),
                           h.seen.activeLineIndex)
        ELSE IF h.seen.present.includeLogo
        THEN startLogoDrag(updateLogoPosition(h, relativeX, relativeY))
        ELSE h

\* handleMouseDown: setIsDragging(true); handlePreviewClick(event)
handleMouseDown(h, clientX, clientY) ==
    handlePreviewClick([h EXCEPT !.isDragging = TRUE], clientX, clientY)

\* handleMouseMove: if (!isDragging) return; handleDrag(event, rect)
handleMouseMove(h, clientX, clientY) ==
    IF ~h.seen.isDragging THEN h ELSE handleDrag(h, clientX, clientY)

\* handleMouseUp: setIsDragging(false); stopDragging(); if (activeLineIndex
\* !== null) enforceTextBoundaries()
handleMouseUp(h) ==
    LET stopped == stopDragging([h EXCEPT !.isDragging = FALSE])
    IN  IF h.seen.activeLineIndex # -1 THEN enforceTextBoundaries(stopped) ELSE stopped

HandleMouseDown(clientX, clientY) ==
    HookCall("handleMouseDown", -1, handleMouseDown(hook, clientX, clientY))

HandleMouseMove(clientX, clientY) ==
    HookCall("handleMouseMove", -1, handleMouseMove(hook, clientX, clientY))

HandleMouseUp == HookCall("handleMouseUp", -1, handleMouseUp(hook))

\* Pointer coordinates of the gesture: the middle of the preview, one pixel
\* from its right edge, and right of it.
GestureCoords == {100, 199, 260}

\* The simplified designer with the first line selected for editing.
InitGesture ==
    /\ InitNoDesign
    /\ \E s \in Shapes :
          LET h == Mounted("classic", 2, s)
              selected == [h EXCEPT !.activeLineIndex = 0, !.currentStep = "text"]
          IN  hook = [selected EXCEPT !.seen = Snapshot(selected)]

NextGesture ==
    \/ \E x \in GestureCoords : HandleMouseDown(x, 100)
    \/ \E x \in GestureCoords : HandleMouseMove(x, 100)
    \/ HandleMouseUp
    \/ Render

SpecGesture == InitGesture /\ [][NextGesture]_vars

\* C26: in the simplified designer, once a drag gesture on the active line
\* has ended (mouse-up or touch-end, which calls stopDragging and then
\* enforceTextBoundaries), no line is outside the safe zone:
\* isOutsideSafeZone(line, design.shape) is false for every line of the
\* design.
C26_DragEndsInsideSafeZone ==
    (/\ hook.variant # "none"
     /\ Len(hook.calls) >= 2
     /\ LastCall.op = "handleMouseUp"
     /\ LastCall.rendered
     /\ \E k \in 1 .. Len(hook.calls) - 1 : hook.calls[k].op = "handleMouseDown")
        => \A i \in 1 .. Len(hook.present.lines) :
              ~isOutsideSafeZone(hook.present.lines[i], hook.present.shape)

---------------------------------------------------------------------------
(* The wizard steps of the simplified designer *)

\* const steps = [structure, text, logo, color, preview]
Steps == <<"structure", "text", "logo", "color", "preview">>

\* steps.findIndex(step => step.id === currentStep), 0-based
StepIndex(step) == (CHOOSE k \in 1 .. Len(Steps) : Steps[k] = step) - 1

\* text.trim() === '' for the texts of the model
IsBlank(text) == text \in BlankTexts

\* validateDesign(step) of useStampDesigner: the list of errors is empty
\* (TRUE) unless, on the text step, every line is without text.
validateDesign(h, step) ==
    ~(/\ step = "text"
      /\ \A i \in 1 .. Len(h.seen.present.lines) : IsBlank(TextOf(h.seen.present.lines[i])))

\* Two lines of detectTextCollisions: both have text and their anchors are
\* less than 20 apart.
TooClose(line1, line2) ==
    /\ TextOf(line1) # ""
    /\ TextOf(line2) # ""
    /\ LET dx == FSub(OrZero(line1, "xPosition"), OrZero(line2, "xPosition"))
           dy == FSub(OrZero(line1, "yPosition"), OrZero(line2, "yPosition"))
       IN  FSqrt(FAdd(FMul(dx, dx), FMul(dy, dy))) < Num(20)

\* detectTextCollisions of useStampDesigner, on the design closed over.
detectTextCollisions(h) ==
    LET ls == h.seen.present.lines
    IN  \E i \in 1 .. Len(ls) : \E j \in i + 1 .. Len(ls) : TooClose(ls[i], ls[j])

\* distributeTextLines of useStampDesigner: updateMultipleLines(
\* redistributeLines(design.lines)) on the design closed over.
distributeTextLines(h) ==
    updateMultipleLinesClassic(h, redistributeLines(h.seen.present.lines, Fresh(h)))

\* setCurrentStep(steps[nextIndex].id) if there is a next step
Advance(h) ==
    LET nextIndex == StepIndex(h.seen.currentStep) + 1
    IN  IF nextIndex < Len(Steps) THEN [h EXCEPT !.currentStep = Steps[nextIndex + 1]] ELSE h

\* goToNextStep of StampDesignerSimplified.
goToNextStep(h) ==
    IF ~validateDesign(h, h.seen.currentStep) THEN h
    ELSE IF h.seen.currentStep = "text"
    THEN LET enforced == enforceTextBoundaries(h)
         IN  IF detectTextCollisions(h) THEN distributeTextLines(enforced)
             ELSE Advance(enforced)
    ELSE Advance(h)

GoToNextStep == HookCall("goToNextStep", -1, goToNextStep(hook))

\* The designs the user has on the text step: n lines, all with a text or
\* only the first, all at the centre or where redistributeLines puts them.
WizardLines ==
    { [i \in 1 .. n |->
          [defaultLine("classic") EXCEPT
              !["text"] = IF i = 1 \/ allText THEN "AB" ELSE "",
              !["yPosition"] = IF spread THEN calculateSafePosition(i - 1, n) ELSE 0,
              !["ref"] = i]] :
          n \in 1 .. MaxProductLines, allText \in BOOLEAN, spread \in BOOLEAN }

InitWizard ==
    /\ InitNoDesign
    /\ \E s \in Shapes : \E ls \in WizardLines :
          LET h == Mounted("classic", Len(ls), s)
              typed == [h EXCEPT !.present.lines = ls, !.currentStep = "text"]
          IN  hook = [typed EXCEPT !.seen = Snapshot(typed)]

NextWizard ==
    \/ GoToNextStep
    \/ Render

SpecWizard == InitWizard /\ [][NextWizard]_vars

\* C27: in the simplified designer on the text step with at least one
\* non-empty line, goToNextStep never leaves the user stuck: if it detects a
\* collision it redistributes the lines and stays on the step, and the next
\* goToNextStep with no edit in between finds no collision and advances to
\* the logo step, for every number of lines the product allows.
C27_SecondNextAdvances ==
    LET ls == hook.present.lines
        n == Len(ls)
        pressed(k) ==
            /\ Len(hook.calls) = k
            /\ \A c \in 1 .. k : hook.calls[c].op = "goToNextStep" /\ hook.calls[c].rendered
    IN  (hook.variant # "none" /\ \E i \in 1 .. n : ~IsBlank(TextOf(ls[i]))) =>
            /\ pressed(1) =>
                  \/ hook.currentStep = "logo"
                  \/ /\ hook.currentStep = "text"
                     /\ \A i \in 1 .. n :
                           ls[i]["yPosition"] = calculateSafePosition(i - 1, n)
            /\ pressed(2) => hook.currentStep \in {"logo", "color"}

---------------------------------------------------------------------------
(* The history of useStampDesignerEnhanced *)

InitHistory ==
    /\ InitNoDesign
    /\ \E s \in {"rectangle", "circle"} : hook = Mounted("enhanced", 2, s)

NextHistory ==
    \/ RemoveLine(0)
    \/ UpdateTextPosition(0, Num(50), Num(-50))
    \/ StartTextDrag(0)
    \/ \E c \in PointerCoords : HandleDrag(c, 150)
    \/ StopDragging
    \/ Undo
    \/ Redo
    \/ Render

SpecHistory == InitHistory /\ [][NextHistory]_vars

\* The history the k-th call left.
HistoryAfter(k) == IF k = Len(hook.calls) THEN History(hook) ELSE hook.was[k + 1]

\* The k-th and the next call are `first` and `second`, each issued from the
\* callbacks of an up-to-date render.
Consecutive(k, first, second) ==
    /\ k + 1 <= Len(hook.calls)
    /\ hook.calls[k].op = first
    /\ hook.calls[k].rendered
    /\ hook.calls[k + 1].op = second
    /\ hook.calls[k + 1].rendered

C29_UndoRevertsDrag ==
    (/\ hook.variant # "none"
     /\ Len(hook.calls) = 4
     /\ \A k \in 1 .. 4 : hook.calls[k].rendered
     /\ hook.calls[1].op = "startTextDrag"
     /\ hook.calls[2].op \in {"handleDrag", "updateTextPosition"}
     /\ hook.calls[3].op = "stopDragging"
     /\ hook.calls[4].op = "undo")
        => LET i == hook.calls[1].index + 1
               before == hook.was[1].present.lines[i]
               after == hook.present.lines[i]
           IN  /\ after["xPosition"] = before["xPosition"]
               /\ after["yPosition"] = before["yPosition"]

=============================================================================
